---- MODULE Spec2Model ----
(***************************************************************************)
(* Ledger / inventory engine of database.py, and the per-user context      *)
(* store of ollama_integration.py with the message handler of bot.py that  *)
(* uses it.                                                                *)
(*                                                                         *)
(* The two SQLite tables are the state: transacciones (the ledger, keyed   *)
(* by id) and inventario (one record per product).  Every handler of       *)
(* database.py is one action; the calls it makes into                      *)
(* actualizar_inventario are part of that action.  Further                 *)
(* specifications take a call apart into its committed writes, with        *)
(* en_curso holding the position of each call in progress.                 *)
(*                                                                         *)
(* Quantities and prices are REAL columns.  They are modelled as exact     *)
(* decimals with three fractional digits: an integer number of Escala-ths. *)
(* A conversion factor is a fraction <<num, den>>.  Binary floating-point  *)
(* rounding is not modelled.                                               *)
(***************************************************************************)
EXTENDS Integers, FiniteSets, Sequences, TLC

VARIABLES transacciones, inventario, resultado, desajustes, context_store, reloj, lote, en_curso,
          bot_data, user_data, estado

vars == <<transacciones, inventario, resultado, desajustes, context_store, reloj, lote, en_curso,
          bot_data, user_data, estado>>

(***************************************************************************)
(* Bounds of the model.                                                    *)
(***************************************************************************)
MaxIds == 2
MaxCantidad == 2
MaxDesajustes == 1
MaxCampos == 2
MaxVidas == 1
MaxLote == 2

Escala == 1000

Ids == 1..MaxIds
Cantidades == {q * Escala : q \in 1..MaxCantidad}
Campos == {"tipo", "producto", "cantidad", "unidad", "precio", "cliente", "notas"}
CamposInventario == {"tipo", "producto", "cantidad", "unidad"}

(***************************************************************************)
(* The inputs the calls of a specification are drawn from.  The *_entrada  *)
(* fields are the arguments of agregar_transaccion (text comes untrimmed,  *)
(* "None" is Python's None); the others are the values a nuevos_datos dict *)
(* may carry, and campos the key sets it may have.                         *)
(*                                                                         *)
(* Universo: the main specification.  Entries are created by u1; u2 is a   *)
(* second actor.  Price, counterparty, note and timestamp are fixed.       *)
(***************************************************************************)
Universo ==
    [creadores |-> {"u1"},
     usuarios |-> {"u1", "u2"},
     tipos_entrada |-> {"compra", "venta"},
     tipos |-> {"compra", "venta"},
     productos_entrada |-> {"maiz", " frijol "},
     productos |-> {"maiz", "frijol"},
     cantidades_entrada |-> Cantidades,
     cantidades |-> Cantidades,
     unidades_entrada |-> {"kg", " Cajas"},
     unidades |-> {"kg", "cajas"},
     precios_entrada |-> {5 * Escala},
     precios |-> {5 * Escala},
     clientes_entrada |-> {"None"},
     clientes |-> {""},
     notas_entrada |-> {"None"},
     notas |-> {""},
     fechas |-> {"None"},
     ahoras |-> {"01/01/2025 09:00AM"},
     campos |-> {c \in SUBSET CamposInventario : Cardinality(c) <= MaxCampos}]

(***************************************************************************)
(* UniversoMarco: the specification of the ledger row itself.  Entries are *)
(* purchases of one product that differ in price, counterparty, note and   *)
(* timestamp, and Modify rewrites those three fields.  UniversoMarcoTotal  *)
(* has the dicts over every key set, with a kind that does not touch the   *)
(* inventory and another product, quantity and unit.                       *)
(***************************************************************************)
UniversoMarco ==
    [creadores |-> {"u1"},
     usuarios |-> {"u1"},
     tipos_entrada |-> {"compra"},
     tipos |-> {"gasto"},
     productos_entrada |-> {"maiz"},
     productos |-> {"frijol"},
     cantidades_entrada |-> {Escala},
     cantidades |-> {2 * Escala},
     unidades_entrada |-> {"kg"},
     unidades |-> {"cajas"},
     precios_entrada |-> {5 * Escala, 7 * Escala},
     precios |-> {5 * Escala, 7 * Escala},
     clientes_entrada |-> {"None", " ana "},
     clientes |-> {"", "ana"},
     notas_entrada |-> {"None", " fiado "},
     notas |-> {"", "fiado"},
     fechas |-> {"None", "15/03/2025 04:20PM"},
     ahoras |-> {"01/01/2025 09:00AM"},
     campos |-> SUBSET {"precio", "cliente", "notas"}]

UniversoMarcoTotal == [UniversoMarco EXCEPT !.campos = SUBSET Campos]

(***************************************************************************)
(* Text helpers: str.strip, str.lower and `x or ""` on the texts the model *)
(* feeds to the handlers.                                                  *)
(***************************************************************************)
strip(s) ==
    CASE s = " frijol " -> "frijol"
      [] s = " Cajas" -> "Cajas"
      [] s = " ana " -> "ana"
      [] s = " fiado " -> "fiado"
      [] s = " KG " -> "KG"
      [] s = " Litros " -> "Litros"
      [] OTHER -> s

lower(s) ==
    CASE s = "Cajas" -> "cajas"
      [] s = " Cajas" -> " cajas"
      [] s = "KG" -> "kg"
      [] s = " KG " -> " kg "
      [] s = "Kilos" -> "kilos"
      [] s = "TON" -> "ton"
      [] s = "Litros" -> "litros"
      [] s = " Litros " -> " litros "
      [] OTHER -> s

or_empty(s) == IF s = "None" THEN "" ELSE s

(***************************************************************************)
(* Unit conversion subsystem.                                              *)
(***************************************************************************)
UNIT_NORMALIZATION ==
    [kg |-> "kilos", k |-> "kilos", kilo |-> "kilos", kilogramo |-> "kilos",
     kilogramos |-> "kilos", ton |-> "toneladas", t |-> "toneladas",
     tonelada |-> "toneladas", toneladas |-> "toneladas",
     caja |-> "cajas", cajas |-> "cajas"]

\* Variant that looks the text up as written (C25).
normalize_unit_sin_limpiar(unit) ==
    IF unit \in DOMAIN UNIT_NORMALIZATION THEN UNIT_NORMALIZATION[unit] ELSE unit

normalize_unit(unit) ==
    LET unit_lower == lower(strip(unit))
    IN IF unit_lower \in DOMAIN UNIT_NORMALIZATION
       THEN UNIT_NORMALIZATION[unit_lower]
       ELSE unit_lower

\* Variant of the table whose cajas/toneladas pair is not the inverse of the
\* toneladas/cajas pair (C24).
CONVERSION_FACTORS_sin_inversa ==
    (<<"kilos", "kilos">> :> <<1, 1>>)
 @@ (<<"toneladas", "toneladas">> :> <<1, 1>>)
 @@ (<<"cajas", "cajas">> :> <<1, 1>>)
 @@ (<<"kilos", "toneladas">> :> <<1, 1000>>)
 @@ (<<"toneladas", "kilos">> :> <<1000, 1>>)
 @@ (<<"cajas", "kilos">> :> <<50, 1>>)
 @@ (<<"kilos", "cajas">> :> <<1, 50>>)
 @@ (<<"cajas", "toneladas">> :> <<1, 50>>)
 @@ (<<"toneladas", "cajas">> :> <<20, 1>>)

CONVERSION_FACTORS ==
    (<<"kilos", "kilos">> :> <<1, 1>>)
 @@ (<<"toneladas", "toneladas">> :> <<1, 1>>)
 @@ (<<"cajas", "cajas">> :> <<1, 1>>)
 @@ (<<"kilos", "toneladas">> :> <<1, 1000>>)
 @@ (<<"toneladas", "kilos">> :> <<1000, 1>>)
 @@ (<<"cajas", "kilos">> :> <<50, 1>>)
 @@ (<<"kilos", "cajas">> :> <<1, 50>>)
 @@ (<<"cajas", "toneladas">> :> <<1, 20>>)
 @@ (<<"toneladas", "cajas">> :> <<20, 1>>)

\* Variant of the lookup that rejects a pair the table lacks (C23).
Factor_solo_tabla(trans_unit, invent_unit) ==
    LET key == <<trans_unit, invent_unit>>
    IN IF key \in DOMAIN CONVERSION_FACTORS THEN CONVERSION_FACTORS[key] ELSE <<0, 1>>

Factor(trans_unit, invent_unit) ==
    LET key == <<trans_unit, invent_unit>>
    IN IF key \in DOMAIN CONVERSION_FACTORS THEN CONVERSION_FACTORS[key] ELSE <<1, 1>>

\* Variant of convert_units that looks the units up as written (used to test
\* that C7 depends on the normalization).
convert_units_sin_normalizar(transaction_unit, inventory_unit, cantidad, precio) ==
    LET factor == Factor(transaction_unit, inventory_unit)
    IN [cantidad |-> (cantidad * factor[1]) \div factor[2],
        precio |-> IF factor[1] # 0 THEN (precio * factor[2]) \div factor[1] ELSE precio]

convert_units(transaction_unit, inventory_unit, cantidad, precio) ==
    LET trans_unit == normalize_unit(transaction_unit)
        invent_unit == normalize_unit(inventory_unit)
        factor == Factor(trans_unit, invent_unit)
    IN [cantidad |-> (cantidad * factor[1]) \div factor[2],
        precio |-> IF factor[1] # 0 THEN (precio * factor[2]) \div factor[1] ELSE precio]

(***************************************************************************)
(* Inventory aggregator: the result of one actualizar_inventario call on   *)
(* the inventory table inv.  error = "" when the call returns.             *)
(***************************************************************************)
HayInventario(inv, producto) == \E r \in inv : r.producto = producto

RegistroDe(inv, producto) == CHOOSE r \in inv : r.producto = producto

\* The stock check of a sale, and two variants of it: one that never rejects
\* (C2) and one that also rejects a sale of exactly the stock (C6).
InventarioInsuficiente_nunca(tipo, nueva_cantidad) == FALSE

InventarioInsuficiente_o_cero(tipo, nueva_cantidad) ==
    tipo = "venta" /\ nueva_cantidad <= 0

InventarioInsuficiente(tipo, nueva_cantidad) ==
    tipo = "venta" /\ nueva_cantidad < 0

\* The branch for a product with no record, and a variant that inserts the
\* record whatever the kind (C5).
sin_registro_crea_siempre(inv, producto, transaction_unit, cantidad, tipo) ==
    [error |-> "",
     inv |-> inv \cup {[producto |-> producto, cantidad |-> cantidad,
                        unidad |-> transaction_unit]}]

\* Variant that rejects every kind when the product has no record (C13).
sin_registro_rechaza_siempre(inv, producto, transaction_unit, cantidad, tipo) ==
    [error |-> "UnknownProduct", inv |-> inv]

sin_registro(inv, producto, transaction_unit, cantidad, tipo) ==
    CASE tipo = "compra" ->
            [error |-> "",
             inv |-> inv \cup {[producto |-> producto, cantidad |-> cantidad,
                                unidad |-> transaction_unit]}]
      [] tipo = "venta" -> [error |-> "UnknownProduct", inv |-> inv]
      [] OTHER -> [error |-> "", inv |-> inv]

\* Variant that drops a record whose quantity reaches zero (C15).
actualizar_inventario_borra_en_cero(inv, producto, transaction_unit, cantidad, tipo) ==
    IF HayInventario(inv, producto)
    THEN LET row == RegistroDe(inv, producto)
             cantidad_convertida ==
                 convert_units(transaction_unit, row.unidad, cantidad, 0).cantidad
             nueva_cantidad ==
                 CASE tipo = "compra" -> row.cantidad + cantidad_convertida
                   [] tipo = "venta" -> row.cantidad - cantidad_convertida
                   [] OTHER -> row.cantidad
         IN IF InventarioInsuficiente(tipo, nueva_cantidad)
            THEN [error |-> "InsufficientStock", inv |-> inv]
            ELSE [error |-> "",
                  inv |-> IF nueva_cantidad = 0 THEN inv \ {row}
                          ELSE (inv \ {row}) \cup {[row EXCEPT !.cantidad = nueva_cantidad]}]
    ELSE sin_registro(inv, producto, transaction_unit, cantidad, tipo)

actualizar_inventario(inv, producto, transaction_unit, cantidad, tipo) ==
    IF HayInventario(inv, producto)
    THEN LET row == RegistroDe(inv, producto)
             cantidad_convertida ==
                 convert_units(transaction_unit, row.unidad, cantidad, 0).cantidad
             nueva_cantidad ==
                 CASE tipo = "compra" -> row.cantidad + cantidad_convertida
                   [] tipo = "venta" -> row.cantidad - cantidad_convertida
                   [] OTHER -> row.cantidad
         IN IF InventarioInsuficiente(tipo, nueva_cantidad)
            THEN [error |-> "InsufficientStock", inv |-> inv]
            ELSE [error |-> "",
                  inv |-> (inv \ {row}) \cup {[row EXCEPT !.cantidad = nueva_cantidad]}]
    ELSE sin_registro(inv, producto, transaction_unit, cantidad, tipo)

\* Variant that sends every kind of entry to the inventory step (C32).
AfectaInventario_siempre(tipo) == TRUE

AfectaInventario(tipo) == tipo \in {"compra", "venta"}

\* The kind that undoes an entry, and a variant that does not flip it (C1).
revertir_tipo_sin_invertir(tipo) == tipo

revertir_tipo(tipo) == IF tipo = "compra" THEN "venta" ELSE "compra"

(***************************************************************************)
(* Ledger helpers.                                                         *)
(***************************************************************************)
\* Variant: the ledger has no primary key to reject a second row (C29).
Existe_nunca(tr, id) == FALSE

Existe(tr, id) == \E r \in tr : r.id = id

Fila(tr, id) == CHOOSE r \in tr : r.id = id

Salida(op, error, paso, tr, inv) ==
    [op |-> op, error |-> error, paso |-> paso, transacciones |-> tr, inventario |-> inv]

Desajusta(s) == s.error # "" /\ s.paso = "aplicar"

\* The ownership check, and a variant that lets every actor through (C8).
SinPermiso_nunca(trans, usuario) == FALSE

SinPermiso(trans, usuario) == trans.usuario # usuario

(***************************************************************************)
(* agregar_transaccion: the ledger INSERT is committed first, then the     *)
(* inventory step runs on its own connection.  uuid is the value of        *)
(* uuid.uuid4() and ahora the formatted datetime.now(); 0 stands for the   *)
(* empty transaccion_id and "None" for an absent text argument.            *)
(***************************************************************************)
\* The ledger after Create's inventory step raised: the INSERT was committed
\* before the step, so the new row stays.  The variant undoes it (C4).
LibroTrasFallo_deshecho(tr, tr_1) == tr

LibroTrasFallo(tr, tr_1) == tr_1

agregar_salida(tr, inv, usuario, tipo, producto, cantidad, unidad, precio, cliente, notas, fecha, transaccion_id, uuid, ahora) ==
    LET cliente_1 == strip(or_empty(cliente))
        notas_1 == strip(or_empty(notas))
        producto_1 == strip(producto)
        unidad_1 == lower(strip(unidad))
        id == IF transaccion_id = 0 THEN uuid ELSE transaccion_id
        fecha_1 == IF fecha = "None" THEN ahora ELSE fecha
        fila == [id |-> id, usuario |-> usuario, tipo |-> tipo, producto |-> producto_1,
                 cantidad |-> cantidad, unidad |-> unidad_1, precio |-> precio,
                 cliente |-> cliente_1, notas |-> notas_1, fecha |-> fecha_1]
        tr_1 == tr \cup {fila}
        paso == actualizar_inventario(inv, producto_1, unidad_1, cantidad, tipo)
    IN IF Existe(tr, id)
       THEN Salida("agregar", "IntegrityError", "insertar", tr, inv)
       ELSE IF ~AfectaInventario(tipo)
       THEN Salida("agregar", "", "", tr_1, inv)
       ELSE IF paso.error # ""
       THEN Salida("agregar", paso.error, "aplicar", LibroTrasFallo(tr, tr_1), inv)
       ELSE Salida("agregar", "", "", tr_1, paso.inv)

(***************************************************************************)
(* modificar_transaccion.  nuevos_datos is a dict: campos is its key set   *)
(* and valores holds the value of each key that is present.                *)
(***************************************************************************)
\* The row written by the UPDATE: nuevos_datos laid over the stored row.  The
\* variant takes every field from the dict without looking at its keys (C10).
Superponer_sin_mirar_claves(old_trans, nuevos_datos) ==
    [id |-> old_trans.id,
     usuario |-> old_trans.usuario,
     tipo |-> nuevos_datos.valores.tipo,
     producto |-> nuevos_datos.valores.producto,
     cantidad |-> nuevos_datos.valores.cantidad,
     unidad |-> nuevos_datos.valores.unidad,
     precio |-> nuevos_datos.valores.precio,
     cliente |-> nuevos_datos.valores.cliente,
     notas |-> nuevos_datos.valores.notas,
     fecha |-> old_trans.fecha]

Superponer(old_trans, nuevos_datos) ==
    [id |-> old_trans.id,
     usuario |-> old_trans.usuario,
     tipo |-> IF "tipo" \in nuevos_datos.campos
              THEN nuevos_datos.valores.tipo ELSE old_trans.tipo,
     producto |-> IF "producto" \in nuevos_datos.campos
                  THEN nuevos_datos.valores.producto ELSE old_trans.producto,
     cantidad |-> IF "cantidad" \in nuevos_datos.campos
                  THEN nuevos_datos.valores.cantidad ELSE old_trans.cantidad,
     unidad |-> IF "unidad" \in nuevos_datos.campos
                THEN nuevos_datos.valores.unidad ELSE old_trans.unidad,
     precio |-> IF "precio" \in nuevos_datos.campos
                THEN nuevos_datos.valores.precio ELSE old_trans.precio,
     cliente |-> IF "cliente" \in nuevos_datos.campos
                 THEN nuevos_datos.valores.cliente ELSE old_trans.cliente,
     notas |-> IF "notas" \in nuevos_datos.campos
               THEN nuevos_datos.valores.notas ELSE old_trans.notas,
     fecha |-> old_trans.fecha]

\* Variant that writes the new row and applies its effect without first
\* reverting the stored one (C11).
modificar_salida_sin_revertir(tr, inv, transaccion_id, usuario, nuevos_datos) ==
    IF ~Existe(tr, transaccion_id)
    THEN Salida("modificar", "NotFound", "buscar", tr, inv)
    ELSE
    LET old_trans == Fila(tr, transaccion_id)
        nueva == Superponer(old_trans, nuevos_datos)
        tr_1 == (tr \ {old_trans}) \cup {nueva}
        aplicacion ==
            IF AfectaInventario(nueva.tipo)
            THEN actualizar_inventario(inv, nueva.producto, nueva.unidad,
                                       nueva.cantidad, nueva.tipo)
            ELSE [error |-> "", inv |-> inv]
    IN IF SinPermiso(old_trans, usuario)
       THEN Salida("modificar", "PermissionDenied", "permiso", tr, inv)
       ELSE IF aplicacion.error # ""
       THEN Salida("modificar", aplicacion.error, "aplicar", tr_1, inv)
       ELSE Salida("modificar", "", "", tr_1, aplicacion.inv)

modificar_salida(tr, inv, transaccion_id, usuario, nuevos_datos) ==
    IF ~Existe(tr, transaccion_id)
    THEN Salida("modificar", "NotFound", "buscar", tr, inv)
    ELSE
    LET old_trans == Fila(tr, transaccion_id)
        reversion ==
            IF AfectaInventario(old_trans.tipo)
            THEN actualizar_inventario(inv, old_trans.producto, old_trans.unidad,
                                       old_trans.cantidad, revertir_tipo(old_trans.tipo))
            ELSE [error |-> "", inv |-> inv]
        nueva == Superponer(old_trans, nuevos_datos)
        tr_1 == (tr \ {old_trans}) \cup {nueva}
        aplicacion ==
            IF AfectaInventario(nueva.tipo)
            THEN actualizar_inventario(reversion.inv, nueva.producto, nueva.unidad,
                                       nueva.cantidad, nueva.tipo)
            ELSE [error |-> "", inv |-> reversion.inv]
    IN IF SinPermiso(old_trans, usuario)
       THEN Salida("modificar", "PermissionDenied", "permiso", tr, inv)
       ELSE IF reversion.error # ""
       THEN Salida("modificar", reversion.error, "revertir", tr, inv)
       ELSE IF aplicacion.error # ""
       THEN Salida("modificar", aplicacion.error, "aplicar", tr_1, reversion.inv)
       ELSE Salida("modificar", "", "", tr_1, aplicacion.inv)

(***************************************************************************)
(* eliminar_transaccion.                                                   *)
(***************************************************************************)
\* Variant that treats a missing id as a successful no-op (C9).
eliminar_salida_sin_buscar(tr, inv, transaccion_id, usuario) ==
    IF ~Existe(tr, transaccion_id)
    THEN Salida("eliminar", "", "", tr, inv)
    ELSE
    LET trans == Fila(tr, transaccion_id)
        reversion ==
            IF AfectaInventario(trans.tipo)
            THEN actualizar_inventario(inv, trans.producto, trans.unidad,
                                       trans.cantidad, revertir_tipo(trans.tipo))
            ELSE [error |-> "", inv |-> inv]
    IN IF SinPermiso(trans, usuario)
       THEN Salida("eliminar", "PermissionDenied", "permiso", tr, inv)
       ELSE IF reversion.error # ""
       THEN Salida("eliminar", reversion.error, "revertir", tr, inv)
       ELSE Salida("eliminar", "", "", tr \ {trans}, reversion.inv)

\* Variant that deletes the row and leaves the inventory alone (C12).
eliminar_salida_sin_revertir(tr, inv, transaccion_id, usuario) ==
    IF ~Existe(tr, transaccion_id)
    THEN Salida("eliminar", "NotFound", "buscar", tr, inv)
    ELSE
    LET trans == Fila(tr, transaccion_id)
    IN IF SinPermiso(trans, usuario)
       THEN Salida("eliminar", "PermissionDenied", "permiso", tr, inv)
       ELSE Salida("eliminar", "", "", tr \ {trans}, inv)

eliminar_salida(tr, inv, transaccion_id, usuario) ==
    IF ~Existe(tr, transaccion_id)
    THEN Salida("eliminar", "NotFound", "buscar", tr, inv)
    ELSE
    LET trans == Fila(tr, transaccion_id)
        reversion ==
            IF AfectaInventario(trans.tipo)
            THEN actualizar_inventario(inv, trans.producto, trans.unidad,
                                       trans.cantidad, revertir_tipo(trans.tipo))
            ELSE [error |-> "", inv |-> inv]
    IN IF SinPermiso(trans, usuario)
       THEN Salida("eliminar", "PermissionDenied", "permiso", tr, inv)
       ELSE IF reversion.error # ""
       THEN Salida("eliminar", reversion.error, "revertir", tr, inv)
       ELSE Salida("eliminar", "", "", tr \ {trans}, reversion.inv)

(***************************************************************************)
(* ContextManager of ollama_integration.py.  context_store maps a user id  *)
(* to its context; each operator below gives the store (and the value      *)
(* returned) after one call made when int(time.time()) reads now.  A       *)
(* message content is a text whose length is given by len.                 *)
(***************************************************************************)
MAX_CONTEXT_LENGTH == 2000
CONTEXT_TTL == 300

len(content) ==
    CASE content = "corto" -> 1000
      [] content = "largo" -> 1200
      [] content = "enorme" -> 2100
      [] content = "ma" -> 2
      [] content = "maiz" -> 4

ContextoNuevo(now) == [messages |-> <<>>, last_active |-> now, accion_ids |-> {}]

Caducado(context, now) == (now - context.last_active) > CONTEXT_TTL

get_context(store, user_id, now) ==
    IF user_id \notin DOMAIN store
    THEN store @@ (user_id :> ContextoNuevo(now))
    ELSE IF Caducado(store[user_id], now)
    THEN [store EXCEPT ![user_id] = ContextoNuevo(now)]
    ELSE store

RECURSIVE total_length(_)
total_length(messages) ==
    IF messages = <<>> THEN 0
    ELSE len(Head(messages).content) + total_length(Tail(messages))

\* Variant of the trimming loop that drops nothing (C21).
Recortar_nada(messages) == messages

RECURSIVE Recortar(_)
Recortar(messages) ==
    IF total_length(messages) > MAX_CONTEXT_LENGTH /\ Len(messages) > 1
    THEN Recortar(Tail(messages))
    ELSE messages

add_message(store, user_id, role, content, now) ==
    LET store_1 == get_context(store, user_id, now)
        messages_1 == Append(store_1[user_id].messages,
                             [role |-> role, content |-> content])
    IN [store_1 EXCEPT ![user_id].messages = Recortar(messages_1),
                       ![user_id].last_active = now]

\* Variant of add_action_id that accepts an id it already holds (C17).
add_action_id_sin_comprobar(store, user_id, accion_id, now) ==
    LET store_1 == get_context(store, user_id, now)
    IN [valor |-> TRUE,
        store |-> [store_1 EXCEPT ![user_id].accion_ids = @ \cup {accion_id}]]

add_action_id(store, user_id, accion_id, now) ==
    LET store_1 == get_context(store, user_id, now)
    IN IF accion_id \in store_1[user_id].accion_ids
       THEN [valor |-> FALSE, store |-> store_1]
       ELSE [valor |-> TRUE,
             store |-> [store_1 EXCEPT ![user_id].accion_ids = @ \cup {accion_id}]]

is_action_id_registered(store, user_id, accion_id, now) ==
    LET store_1 == get_context(store, user_id, now)
    IN [valor |-> accion_id \in store_1[user_id].accion_ids, store |-> store_1]

(***************************************************************************)
(* analizar_mensaje, as far as the context store goes: the id set of the   *)
(* user is emptied, and when the extractor answered (ok) the answer and    *)
(* the message are appended to the window.                                 *)
(***************************************************************************)
\* Variant that keeps the id set from one batch to the next (C20).
analizar_mensaje_sin_limpiar(store, user_id, ok, respuesta, mensaje, now) ==
    LET store_1 == get_context(store, user_id, now)
    IN IF ok
       THEN add_message(add_message(store_1, user_id, "assistant", respuesta, now),
                        user_id, "user", mensaje, now)
       ELSE store_1

analizar_mensaje(store, user_id, ok, respuesta, mensaje, now) ==
    LET store_1 == get_context(store, user_id, now)
        store_2 == [store_1 EXCEPT ![user_id].accion_ids = {}]
    IN IF ok
       THEN add_message(add_message(store_2, user_id, "assistant", respuesta, now),
                        user_id, "user", mensaje, now)
       ELSE store_2

(***************************************************************************)
(* One iteration of the loop of auto_handler over the actions of a batch.  *)
(* accion.error is the "error" marker, accion.numerico whether cantidad    *)
(* and precio convert to float, transaccion_id 0 the absent id.  aborta    *)
(* tells that an exception other than ValueError left the loop.            *)
(***************************************************************************)
o_unidades(s) == IF s = "None" THEN "unidades" ELSE s

Paso(respuesta, aborta, error, paso, id, tr, inv, cambios, store) ==
    [respuesta |-> respuesta, aborta |-> aborta, error |-> error, paso |-> paso,
     transaccion_id |-> id, transacciones |-> tr, inventario |-> inv,
     desajusta |-> cambios, store |-> store]

\* The errors of sqlite3 a create can end with: they are not ValueError, so
\* the handler of the loop (bot.py:855) lets them through to the outer one.
ErroresDeAlmacen == {"IntegrityError", "OperationalError"}

\* Variant that records the id of the action before the create ends (C33).
registrar_accion_anota_antes(s, consulta, user_id, transaccion_id, now) ==
    IF consulta.valor
    THEN Paso("duplicada", FALSE, "DuplicateAction", "cache", transaccion_id,
              s.transacciones, s.inventario, FALSE, consulta.store)
    ELSE IF s.error \in ErroresDeAlmacen
    THEN Paso("error procesando", TRUE, s.error, s.paso, transaccion_id,
              s.transacciones, s.inventario, FALSE,
              add_action_id(consulta.store, user_id, transaccion_id, now).store)
    ELSE IF s.error # ""
    THEN Paso("error", FALSE, s.error, s.paso, transaccion_id,
              s.transacciones, s.inventario, Desajusta(s), consulta.store)
    ELSE Paso("registrada", FALSE, "", "", transaccion_id,
              s.transacciones, s.inventario, FALSE,
              add_action_id(consulta.store, user_id, transaccion_id, now).store)

\* The iteration from the duplicate check on (bot.py:819-858): consulta is
\* the outcome of is_action_id_registered and s that of agregar_transaccion.
registrar_accion(s, consulta, user_id, transaccion_id, now) ==
    IF consulta.valor
    THEN Paso("duplicada", FALSE, "DuplicateAction", "cache", transaccion_id,
              s.transacciones, s.inventario, FALSE, consulta.store)
    ELSE IF s.error \in ErroresDeAlmacen
    THEN Paso("error procesando", TRUE, s.error, s.paso, transaccion_id,
              s.transacciones, s.inventario, FALSE, consulta.store)
    ELSE IF s.error # ""
    THEN Paso("error", FALSE, s.error, s.paso, transaccion_id,
              s.transacciones, s.inventario, Desajusta(s), consulta.store)
    ELSE Paso("registrada", FALSE, "", "", transaccion_id,
              s.transacciones, s.inventario, FALSE,
              add_action_id(consulta.store, user_id, transaccion_id, now).store)

sin_cambios(tr, inv) == Salida("agregar", "", "", tr, inv)

accion_con_id(tr, inv, store, user_id, registrado_por, accion, transaccion_id, consulta, ahora, now) ==
    registrar_accion(
        IF consulta.valor
        THEN sin_cambios(tr, inv)
        ELSE agregar_salida(tr, inv, registrado_por,
                            lower(strip(or_empty(accion.tipo))),
                            strip(or_empty(accion.producto)), accion.cantidad,
                            strip(o_unidades(accion.unidad)), accion.precio,
                            strip(or_empty(accion.cliente)),
                            strip(or_empty(accion.nota)), "None", transaccion_id,
                            transaccion_id, ahora),
        consulta, user_id, transaccion_id, now)

\* Variant in which a record with the "error" marker ends the loop (C34).
procesar_accion_para_en_error(tr, inv, store, user_id, registrado_por, accion, uuid, now, ahora) ==
    IF accion.error
    THEN Paso("error", TRUE, "", "", 0, tr, inv, FALSE, store)
    ELSE IF ~accion.numerico
    THEN Paso("error numerico", FALSE, "", "", 0, tr, inv, FALSE, store)
    ELSE IF accion.transaccion_id = 0
    THEN accion_con_id(tr, inv, store, user_id, registrado_por, accion, uuid,
                       is_action_id_registered(store, user_id, uuid, now), ahora, now)
    ELSE accion_con_id(tr, inv, store, user_id, registrado_por, accion,
                       accion.transaccion_id,
                       is_action_id_registered(store, user_id, accion.transaccion_id,
                                               now), ahora, now)

procesar_accion(tr, inv, store, user_id, registrado_por, accion, uuid, now, ahora) ==
    IF accion.error
    THEN Paso("error", FALSE, "", "", 0, tr, inv, FALSE, store)
    ELSE IF ~accion.numerico
    THEN Paso("error numerico", FALSE, "", "", 0, tr, inv, FALSE, store)
    ELSE IF accion.transaccion_id = 0
    THEN accion_con_id(tr, inv, store, user_id, registrado_por, accion, uuid,
                       is_action_id_registered(store, user_id, uuid, now), ahora, now)
    ELSE accion_con_id(tr, inv, store, user_id, registrado_por, accion,
                       accion.transaccion_id,
                       is_action_id_registered(store, user_id, accion.transaccion_id,
                                               now), ahora, now)

(***************************************************************************)
(* The state machine.  resultado records how the last call ended;          *)
(* desajustes counts the calls that failed in an inventory step after the  *)
(* ledger had been committed, and is capped by MaxDesajustes.              *)
(***************************************************************************)
LoteInactivo == [activo |-> FALSE]

\* The calls in progress, one per connection to the database.
Conexiones == {"A", "B"}

Libre == [pc |-> "libre"]

\* The conversations of bot.py: bot_data.usuarios maps a registered chat to
\* its worker_id, user_data is the dict of the fields collected so far and
\* estado the state of the conversation in progress.  A key that is absent
\* from user_data, or holds None, reads "None" (texts), <<>> (numbers) or 0
\* (ids); a number q reads <<q>>.
END == <<"", "END">>

DictVacio ==
    [producto |-> "None", cantidad |-> <<>>, unidad |-> "None", precio |-> <<>>,
     cliente |-> "None", nota |-> "None", transaccion_id |-> 0,
     transaccion_a_eliminar |-> 0]

SinConversacion == UNCHANGED <<bot_data, user_data, estado>>

Efecto(s) ==
    /\ Desajusta(s) => desajustes < MaxDesajustes
    /\ transacciones' = s.transacciones
    /\ inventario' = s.inventario
    /\ resultado' = [op |-> s.op, error |-> s.error, paso |-> s.paso]
    /\ desajustes' = IF Desajusta(s) THEN desajustes + 1 ELSE desajustes
    /\ UNCHANGED <<context_store, reloj, lote, en_curso>> /\ SinConversacion

Init ==
    /\ transacciones = {}
    /\ inventario = {}
    /\ resultado = [op |-> "connect_db", error |-> "", paso |-> ""]
    /\ desajustes = 0
    /\ context_store = <<>>
    /\ reloj = 0
    /\ lote = LoteInactivo
    /\ en_curso = [c \in Conexiones |-> Libre]
    /\ bot_data = [usuarios |-> <<>>]
    /\ user_data = DictVacio
    /\ estado = END

agregar_transaccion(usuario, tipo, producto, cantidad, unidad, precio, cliente, notas, fecha, transaccion_id, uuid, ahora) ==
    Efecto(agregar_salida(transacciones, inventario, usuario, tipo, producto, cantidad,
                          unidad, precio, cliente, notas, fecha, transaccion_id, uuid,
                          ahora))

modificar_transaccion(transaccion_id, usuario, nuevos_datos) ==
    Efecto(modificar_salida(transacciones, inventario, transaccion_id, usuario,
                            nuevos_datos))

eliminar_transaccion(transaccion_id, usuario) ==
    Efecto(eliminar_salida(transacciones, inventario, transaccion_id, usuario))

IdsLibres == {i \in Ids : ~Existe(transacciones, i)}

ValoresPara(campos, campo, valores) ==
    IF campo \in campos THEN valores ELSE {CHOOSE v \in valores : TRUE}

NuevosDatos(U) ==
    UNION {
      {[campos |-> campos,
        valores |-> [tipo |-> t, producto |-> p, cantidad |-> c, unidad |-> u,
                     precio |-> pr, cliente |-> cl, notas |-> n]] :
         t \in ValoresPara(campos, "tipo", U.tipos),
         p \in ValoresPara(campos, "producto", U.productos),
         c \in ValoresPara(campos, "cantidad", U.cantidades),
         u \in ValoresPara(campos, "unidad", U.unidades),
         pr \in ValoresPara(campos, "precio", U.precios),
         cl \in ValoresPara(campos, "cliente", U.clientes),
         n \in ValoresPara(campos, "notas", U.notas)} :
      campos \in U.campos}

AgregarEn(U) ==
    \E usuario \in U.creadores, tipo \in U.tipos_entrada,
       producto \in U.productos_entrada, cantidad \in U.cantidades_entrada,
       unidad \in U.unidades_entrada, precio \in U.precios_entrada,
       cliente \in U.clientes_entrada, notas \in U.notas_entrada, fecha \in U.fechas,
       transaccion_id \in Ids \cup {0}, ahora \in U.ahoras :
        \E uuid \in IF transaccion_id = 0 THEN IdsLibres ELSE {0} :
            agregar_transaccion(usuario, tipo, producto, cantidad, unidad, precio,
                                cliente, notas, fecha, transaccion_id, uuid, ahora)

ModificarEn(U) ==
    \E transaccion_id \in Ids, usuario \in U.usuarios, nuevos_datos \in NuevosDatos(U) :
        modificar_transaccion(transaccion_id, usuario, nuevos_datos)

EliminarEn(U) ==
    \E transaccion_id \in Ids, usuario \in U.usuarios :
        eliminar_transaccion(transaccion_id, usuario)

Agregar == AgregarEn(Universo)

Modificar == ModificarEn(Universo)

Eliminar == EliminarEn(Universo)

Next == Agregar \/ Modificar \/ Eliminar

Spec == Init /\ [][Next]_vars

AgregarMarco == AgregarEn(UniversoMarco)

ModificarMarco == ModificarEn(UniversoMarco)

EliminarMarco == EliminarEn(UniversoMarco)

NextMarco == AgregarMarco \/ ModificarMarco \/ EliminarMarco

SpecMarco == Init /\ [][NextMarco]_vars

(***************************************************************************)
(* The context store on its own: the calls of ContextManager made by any   *)
(* of the users at the current clock reading, and the passing of time.     *)
(* reloj is the number of seconds int(time.time()) has advanced since the  *)
(* start; Instantes are the readings the model lets it take.               *)
(***************************************************************************)
UsuariosChat == {"u1", "u2"}
Roles == {"user"}
Contenidos == {"corto", "enorme"}
Instantes == {k * CONTEXT_TTL + j : k \in 0..MaxVidas, j \in 0..MaxVidas}

SoloContexto == UNCHANGED <<transacciones, inventario, desajustes, lote, en_curso>> /\ SinConversacion

Tic ==
    /\ \E t \in Instantes : t > reloj /\ reloj' = t
    /\ resultado' = [op |-> "tic", error |-> "", paso |-> ""]
    /\ UNCHANGED <<transacciones, inventario, desajustes, lote, context_store, en_curso>> /\ SinConversacion

GetContext ==
    \E user_id \in UsuariosChat :
        /\ context_store' = get_context(context_store, user_id, reloj)
        /\ resultado' = [op |-> "get_context", error |-> "", paso |-> ""]
        /\ UNCHANGED reloj /\ SoloContexto

AddMessage ==
    \E user_id \in UsuariosChat, role \in Roles, content \in Contenidos :
        /\ context_store' = add_message(context_store, user_id, role, content, reloj)
        /\ resultado' = [op |-> "add_message", error |-> "", paso |-> ""]
        /\ UNCHANGED reloj /\ SoloContexto

AddActionId ==
    \E user_id \in UsuariosChat, accion_id \in Ids :
        LET s == add_action_id(context_store, user_id, accion_id, reloj)
        IN /\ context_store' = s.store
           /\ resultado' = [op |-> "add_action_id", error |-> "", paso |-> "",
                            valor |-> s.valor]
           /\ UNCHANGED reloj /\ SoloContexto

IsActionIdRegistered ==
    \E user_id \in UsuariosChat, accion_id \in Ids :
        LET s == is_action_id_registered(context_store, user_id, accion_id, reloj)
        IN /\ context_store' = s.store
           /\ resultado' = [op |-> "is_action_id_registered", error |-> "", paso |-> "",
                            valor |-> s.valor]
           /\ UNCHANGED reloj /\ SoloContexto

NextContexto == Tic \/ GetContext \/ AddMessage \/ AddActionId \/ IsActionIdRegistered

SpecContexto == Init /\ [][NextContexto]_vars

(***************************************************************************)
(* The message handler: auto_handler of bot.py.  One step takes a message  *)
(* of a chat through analizar_mensaje, which yields the batch of actions;  *)
(* each further step is one iteration of the loop over the batch.  The     *)
(* application handles one update at a time, so no other handler runs      *)
(* while a batch is in progress; the clock may advance between steps.      *)
(* lote.hechas lists the action id and the reply of the iterations done.   *)
(***************************************************************************)
AccionConError ==
    [error |-> TRUE, numerico |-> TRUE, tipo |-> "None", producto |-> "None",
     cantidad |-> 0, unidad |-> "None", precio |-> 0, cliente |-> "None",
     nota |-> "None", transaccion_id |-> 0]

AccionDe(numerico, tipo, transaccion_id) ==
    [error |-> FALSE, numerico |-> numerico, tipo |-> tipo, producto |-> "maiz",
     cantidad |-> Escala, unidad |-> "kg", precio |-> 5 * Escala,
     cliente |-> "None", nota |-> "None", transaccion_id |-> transaccion_id]

Acciones ==
    {AccionDe(TRUE, tipo, transaccion_id) :
        tipo \in {"compra", "venta"}, transaccion_id \in Ids \cup {0}}
      \cup {AccionDe(FALSE, "compra", transaccion_id) : transaccion_id \in Ids \cup {0}}
      \cup {AccionConError}

Lotes == UNION {[1..n -> Acciones] : n \in 0..MaxLote}

UniversoLote ==
    [Universo EXCEPT !.usuarios = {"u1"}, !.campos = {{}}]

IdsDeLote ==
    IF lote.activo
    THEN {lote.pendientes[i].transaccion_id : i \in DOMAIN lote.pendientes}
            \cup {lote.hechas[i].transaccion_id : i \in DOMAIN lote.hechas}
    ELSE {}

IdsNuevos ==
    {i \in IdsLibres :
        /\ i \notin IdsDeLote
        /\ \A u \in DOMAIN context_store : i \notin context_store[u].accion_ids}

IniciarLote ==
    \E user_id \in {"u1"}, registrado_por \in {"u1"}, ok \in BOOLEAN,
       mensaje \in Contenidos, acciones \in Lotes :
        /\ ~lote.activo
        /\ ~ok => acciones = <<AccionConError>>
        /\ context_store' = analizar_mensaje(context_store, user_id, ok, "corto",
                                             mensaje, reloj)
        /\ lote' = IF acciones = <<>> THEN LoteInactivo
                   ELSE [activo |-> TRUE, user_id |-> user_id,
                         registrado_por |-> registrado_por,
                         pendientes |-> acciones, hechas |-> <<>>]
        /\ resultado' = [op |-> "analizar_mensaje", error |-> "", paso |-> ""]
        /\ UNCHANGED <<transacciones, inventario, desajustes, reloj, en_curso>> /\ SinConversacion

EfectoLote(p) ==
    /\ transacciones' = p.transacciones
    /\ inventario' = p.inventario
    /\ context_store' = p.store
    /\ desajustes' = IF p.desajusta /\ desajustes < MaxDesajustes
                     THEN desajustes + 1 ELSE desajustes
    /\ resultado' = [op |-> "auto_handler", error |-> p.error, paso |-> p.paso,
                     respuesta |-> p.respuesta]
    /\ lote' = IF p.aborta \/ Len(lote.pendientes) = 1
               THEN LoteInactivo
               ELSE [lote EXCEPT
                       !.pendientes = Tail(@),
                       !.hechas = Append(@, [transaccion_id |-> p.transaccion_id,
                                             respuesta |-> p.respuesta])]
    /\ UNCHANGED <<reloj, en_curso>> /\ SinConversacion

NecesitaUuid(accion) == accion.transaccion_id = 0 /\ ~accion.error /\ accion.numerico

ProcesarAccion ==
    /\ lote.activo
    /\ \E ahora \in Universo.ahoras :
          \E uuid \in IF NecesitaUuid(Head(lote.pendientes)) THEN IdsNuevos ELSE {0} :
              EfectoLote(procesar_accion(transacciones, inventario, context_store,
                                         lote.user_id, lote.registrado_por,
                                         Head(lote.pendientes), uuid, reloj, ahora))

EliminarLote == ~lote.activo /\ EliminarEn(UniversoLote)

NextLote == IniciarLote \/ ProcesarAccion \/ EliminarLote \/ Tic

SpecLote == Init /\ [][NextLote]_vars

(***************************************************************************)
(* The unit conversion subsystem on its own: calls of normalize_unit and   *)
(* convert_units on unit texts as a caller may write them, and calls of    *)
(* actualizar_inventario in units the factor table does not know.          *)
(* resultado holds the arguments and the value of the last call.           *)
(***************************************************************************)
TextosDeUnidad ==
    {"kg", " KG ", "k", "kilo", "kilogramo", "kilogramos", "kilos", "Kilos",
     "ton", "TON", "t", "tonelada", "toneladas", "caja", "cajas", "Cajas", " Cajas",
     "litros", " Litros ", "unidades"}

CantidadesDeConversion ==
    {225, 1000 * Escala} \cup {k * Escala : k \in 1..MaxCantidad}

UnidadesDeRegistro == {"kilos", "toneladas", "cajas", "kg", "litros", "unidades"}

UnidadesSinFactor == {"litros", "unidades"}

SoloResultado ==
    UNCHANGED <<transacciones, inventario, desajustes, context_store, reloj, lote, en_curso>> /\ SinConversacion

NormalizeUnit ==
    \E unit \in TextosDeUnidad :
        /\ resultado' = [op |-> "normalize_unit", error |-> "", paso |-> "",
                         unit |-> unit, valor |-> normalize_unit(unit)]
        /\ SoloResultado

ConvertUnits ==
    \E transaction_unit \in TextosDeUnidad, inventory_unit \in UnidadesDeRegistro,
       cantidad \in CantidadesDeConversion, precio \in {5 * Escala} :
        /\ resultado' = [op |-> "convert_units", error |-> "", paso |-> "",
                         transaction_unit |-> transaction_unit,
                         inventory_unit |-> inventory_unit,
                         cantidad |-> cantidad, precio |-> precio,
                         valor |-> convert_units(transaction_unit, inventory_unit,
                                                 cantidad, precio)]
        /\ SoloResultado

EfectoInventario(s, tipo) ==
    /\ \A r \in s.inv : r.cantidad <= MaxCantidad * Escala
    /\ inventario' = s.inv
    /\ resultado' = [op |-> "actualizar_inventario", error |-> s.error, paso |-> "",
                     tipo |-> tipo]
    /\ UNCHANGED <<transacciones, desajustes, context_store, reloj, lote, en_curso>> /\ SinConversacion

ActualizarInventario ==
    \E producto \in {"leche"}, transaction_unit \in UnidadesSinFactor \cup {"kg"},
       cantidad \in {Escala}, tipo \in {"compra", "venta"} :
        EfectoInventario(actualizar_inventario(inventario, producto, transaction_unit,
                                               cantidad, tipo), tipo)

NextUnidades == NormalizeUnit \/ ConvertUnits \/ ActualizarInventario

SpecUnidades == Init /\ [][NextUnidades]_vars

(***************************************************************************)
(* The history query.  An instant is <<year, month, day, hour, minute>>;   *)
(* strftime gives the fields of the text "%d/%m/%Y %I:%M%p" in the order   *)
(* they are written (AM is 0 and PM is 1).  Every field has a fixed width, *)
(* so the text order SQLite sorts the fecha column by is the lexicographic *)
(* order of these fields (TextoMenor).  Time does not run backwards: a new *)
(* entry is never created before a stored one.                             *)
(***************************************************************************)
Calendario ==
    {<<2025, 1, 31, 9, 0>>, <<2025, 2, 1, 9, 0>>, <<2025, 2, 1, 12, 30>>,
     <<2025, 2, 1, 13, 0>>}

strftime(t) ==
    <<t[3], t[2], t[1], IF t[4] % 12 = 0 THEN 12 ELSE t[4] % 12, t[5],
      IF t[4] < 12 THEN 0 ELSE 1>>

Menor(a, b) ==
    \E i \in DOMAIN a : a[i] < b[i] /\ \A j \in 1..(i - 1) : a[j] = b[j]

TextoMenor(a, b) == Menor(a, b)

Instante(fecha) == CHOOSE t \in Calendario : strftime(t) = fecha

Posteriores ==
    {t \in Calendario : \A f \in transacciones : ~Menor(t, Instante(f.fecha))}

UniversoHistorial ==
    [Universo EXCEPT !.creadores = {"u1", "u2"}, !.tipos_entrada = {"compra"},
                     !.productos_entrada = {"maiz"}, !.cantidades_entrada = {Escala},
                     !.unidades_entrada = {"kg"},
                     !.ahoras = {strftime(t) : t \in Posteriores}]

\* The rows of "SELECT ... WHERE usuario = ? ORDER BY fecha DESC": every
\* order of the user's rows in which no row precedes one of greater fecha
\* text (rows of equal fecha come in any order).
obtener_historial_df(tr, user_id) ==
    LET filas == {f \in tr : f.usuario = user_id}
        n == Cardinality(filas)
    IN {h \in [1..n -> filas] :
          /\ \A i \in 1..n, j \in 1..n : i # j => h[i] # h[j]
          /\ \A i \in 1..n, j \in 1..n :
                i < j => ~TextoMenor(h[i].fecha, h[j].fecha)}

AgregarHistorial == AgregarEn(UniversoHistorial)

ObtenerHistorial ==
    \E user_id \in UniversoHistorial.creadores :
        \E h \in obtener_historial_df(transacciones, user_id) :
            /\ resultado' = [op |-> "obtener_historial_df", error |-> "", paso |-> "",
                             user_id |-> user_id, valor |-> h]
            /\ SoloResultado

NextHistorial == AgregarHistorial \/ ObtenerHistorial

SpecHistorial == Init /\ [][NextHistorial]_vars

(***************************************************************************)
(* modificar_transaccion step by step.  The handler makes three writes,    *)
(* each committed on its own: the reversal (actualizar_inventario on its   *)
(* own connection, database.py:174-176), the UPDATE of the row (178-186)   *)
(* and the re-application (187-188).  en_curso["A"] holds the position of  *)
(* the call, its arguments, the row it read and the tables it started      *)
(* from.  Detener is the process stopping between two of the writes.       *)
(***************************************************************************)
\* Variant whose reversal is not committed before the UPDATE (C30).
modificar_revertir_sin_confirmar(tr, inv, transaccion_id, usuario) ==
    IF ~Existe(tr, transaccion_id)
    THEN Salida("modificar", "NotFound", "buscar", tr, inv)
    ELSE IF SinPermiso(Fila(tr, transaccion_id), usuario)
    THEN Salida("modificar", "PermissionDenied", "permiso", tr, inv)
    ELSE Salida("modificar", "", "revertir", tr, inv)

modificar_revertir(tr, inv, transaccion_id, usuario) ==
    IF ~Existe(tr, transaccion_id)
    THEN Salida("modificar", "NotFound", "buscar", tr, inv)
    ELSE
    LET old_trans == Fila(tr, transaccion_id)
        reversion ==
            IF AfectaInventario(old_trans.tipo)
            THEN actualizar_inventario(inv, old_trans.producto, old_trans.unidad,
                                       old_trans.cantidad, revertir_tipo(old_trans.tipo))
            ELSE [error |-> "", inv |-> inv]
    IN IF SinPermiso(old_trans, usuario)
       THEN Salida("modificar", "PermissionDenied", "permiso", tr, inv)
       ELSE IF reversion.error # ""
       THEN Salida("modificar", reversion.error, "revertir", tr, inv)
       ELSE Salida("modificar", "", "revertir", tr, reversion.inv)

modificar_actualizar(tr, old_trans, nuevos_datos) ==
    (tr \ {old_trans}) \cup {Superponer(old_trans, nuevos_datos)}

modificar_reaplicar(inv, nueva) ==
    IF AfectaInventario(nueva.tipo)
    THEN actualizar_inventario(inv, nueva.producto, nueva.unidad, nueva.cantidad,
                               nueva.tipo)
    ELSE [error |-> "", inv |-> inv]

UniversoPasos ==
    [Universo EXCEPT !.usuarios = {"u1"}, !.productos_entrada = {"maiz"},
                     !.productos = {"maiz"},
                     !.campos = {c \in SUBSET {"tipo", "cantidad", "unidad"} :
                                   c # {} /\ Cardinality(c) <= MaxCampos}]

Ocupada(c) == en_curso[c].pc \notin {"libre", "detenido"}

SoloTablas == UNCHANGED <<context_store, reloj, lote>> /\ SinConversacion

AgregarPasos == ~Ocupada("A") /\ AgregarEn(UniversoPasos)

EfectoRevertir(s, transaccion_id, usuario, nuevos_datos) ==
    /\ inventario' = s.inventario
    /\ resultado' = [op |-> s.op, error |-> s.error, paso |-> s.paso]
    /\ en_curso' = IF s.error # "" THEN en_curso
                   ELSE [en_curso EXCEPT
                           !["A"] = [pc |-> "revertido",
                                     transaccion_id |-> transaccion_id,
                                     usuario |-> usuario, nuevos_datos |-> nuevos_datos,
                                     old_trans |-> Fila(transacciones, transaccion_id),
                                     antes |-> [transacciones |-> transacciones,
                                                inventario |-> inventario]]]
    /\ UNCHANGED <<transacciones, desajustes>> /\ SoloTablas

ModificarRevertir ==
    /\ ~Ocupada("A")
    /\ \E transaccion_id \in Ids, usuario \in UniversoPasos.usuarios,
          nuevos_datos \in NuevosDatos(UniversoPasos) :
           EfectoRevertir(modificar_revertir(transacciones, inventario, transaccion_id,
                                             usuario),
                          transaccion_id, usuario, nuevos_datos)

ModificarActualizar ==
    /\ en_curso["A"].pc = "revertido"
    /\ transacciones' = modificar_actualizar(transacciones, en_curso["A"].old_trans,
                                             en_curso["A"].nuevos_datos)
    /\ resultado' = [op |-> "modificar", error |-> "", paso |-> "actualizar"]
    /\ en_curso' = [en_curso EXCEPT !["A"].pc = "actualizado"]
    /\ UNCHANGED <<inventario, desajustes>> /\ SoloTablas

EfectoReaplicar(s) ==
    /\ s.error # "" => desajustes < MaxDesajustes
    /\ inventario' = s.inv
    /\ desajustes' = IF s.error # "" THEN desajustes + 1 ELSE desajustes
    /\ resultado' = [op |-> "modificar", error |-> s.error,
                     paso |-> IF s.error # "" THEN "aplicar" ELSE ""]
    /\ en_curso' = [en_curso EXCEPT !["A"] = Libre]
    /\ UNCHANGED transacciones /\ SoloTablas

ModificarReaplicar ==
    /\ en_curso["A"].pc = "actualizado"
    /\ EfectoReaplicar(modificar_reaplicar(inventario,
                                           Fila(transacciones,
                                                en_curso["A"].transaccion_id)))

Detener ==
    /\ en_curso["A"].pc \in {"revertido", "actualizado"}
    /\ desajustes < MaxDesajustes
    /\ desajustes' = desajustes + 1
    /\ resultado' = [op |-> "modificar", error |-> "detenido",
                     paso |-> en_curso["A"].pc]
    /\ en_curso' = [en_curso EXCEPT !["A"].pc = "detenido"]
    /\ UNCHANGED <<transacciones, inventario>> /\ SoloTablas

NextPasos ==
    AgregarPasos \/ ModificarRevertir \/ ModificarActualizar \/ ModificarReaplicar
        \/ Detener

SpecPasos == Init /\ [][NextPasos]_vars

(***************************************************************************)
(* actualizar_inventario called on two connections at once.  A call reads  *)
(* the record of the product (SELECT, database.py:93-94), computes the new *)
(* quantity from the row it read (95-103) and writes it (UPDATE or INSERT  *)
(* and commit, 104-114).  SQLite keeps no lock between the SELECT and the  *)
(* write, so the other connection may read and write in between; producto  *)
(* is the primary key of inventario.  vista is the table as the call read  *)
(* it: the record of the product, or nothing.                              *)
(***************************************************************************)
leer_inventario(inv, producto) ==
    IF HayInventario(inv, producto) THEN {RegistroDe(inv, producto)} ELSE {}

escribir_inventario(inv, vista, producto, transaction_unit, cantidad, tipo) ==
    LET s == actualizar_inventario(vista, producto, transaction_unit, cantidad, tipo)
    IN IF s.error # "" THEN [error |-> s.error, inv |-> inv]
       ELSE IF vista # {}
       THEN [error |-> "",
             inv |-> {IF r.producto = producto
                      THEN [r EXCEPT !.cantidad = RegistroDe(s.inv, producto).cantidad]
                      ELSE r : r \in inv}]
       ELSE IF s.inv = {} THEN [error |-> "", inv |-> inv]
       ELSE IF HayInventario(inv, producto)
       THEN [error |-> "IntegrityError", inv |-> inv]
       ELSE [error |-> "", inv |-> inv \cup s.inv]

Leer ==
    \E c \in Conexiones, producto \in {"maiz"}, transaction_unit \in {"kg"},
       cantidad \in {k * Escala : k \in 1..MaxCantidad}, tipo \in {"compra", "venta"} :
        /\ ~Ocupada(c)
        /\ en_curso' = [en_curso EXCEPT
                          ![c] = [pc |-> "leido", producto |-> producto,
                                  transaction_unit |-> transaction_unit,
                                  cantidad |-> cantidad, tipo |-> tipo,
                                  vista |-> leer_inventario(inventario, producto)]]
        /\ resultado' = [op |-> "actualizar_inventario", error |-> "", paso |-> "leer",
                         conexion |-> c]
        /\ UNCHANGED <<transacciones, inventario, desajustes>> /\ SoloTablas

EfectoEscribir(s, c) ==
    /\ \A r \in s.inv : r.cantidad <= 2 * MaxCantidad * Escala
    /\ inventario' = s.inv
    /\ resultado' = [op |-> "actualizar_inventario", error |-> s.error,
                     paso |-> "escribir", conexion |-> c]
    /\ en_curso' = [en_curso EXCEPT ![c] = Libre]
    /\ UNCHANGED <<transacciones, desajustes>> /\ SoloTablas

Escribir ==
    \E c \in Conexiones :
        /\ en_curso[c].pc = "leido"
        /\ EfectoEscribir(escribir_inventario(inventario, en_curso[c].vista,
                                              en_curso[c].producto,
                                              en_curso[c].transaction_unit,
                                              en_curso[c].cantidad, en_curso[c].tipo),
                          c)

NextConcurrente == Leer \/ Escribir

SpecConcurrente == Init /\ [][NextConcurrente]_vars

(***************************************************************************)
(* Two batches of one user in progress at once.  Each of the two           *)
(* auto_handler calls, "A" and "B", takes its message through              *)
(* analizar_mensaje and then runs the loop over its actions; the two loops *)
(* interleave iteration by iteration (an iteration makes its cache and     *)
(* database calls without awaiting; the handler awaits between iterations, *)
(* bot.py:852-857).  en_curso[c].aceptadas holds the ids for which the     *)
(* loop of c reached add_action_id.                                        *)
(***************************************************************************)
AccionesCarrera ==
    {AccionDe(TRUE, tipo, transaccion_id) :
        tipo \in {"compra", "venta"}, transaccion_id \in Ids}

LotesCarrera == UNION {[1..n -> AccionesCarrera] : n \in 1..MaxLote}

IniciarCarrera ==
    \E c \in Conexiones, mensaje \in {"corto"}, acciones \in LotesCarrera :
        /\ en_curso[c].pc = "libre"
        /\ context_store' = analizar_mensaje(context_store, "u1", TRUE, "corto",
                                             mensaje, reloj)
        /\ en_curso' = [en_curso EXCEPT
                          ![c] = [pc |-> "en_lote", pendientes |-> acciones,
                                  aceptadas |-> {}]]
        /\ resultado' = [op |-> "analizar_mensaje", error |-> "", paso |-> ""]
        /\ UNCHANGED <<transacciones, inventario, desajustes, reloj, lote>> /\ SinConversacion

EfectoCarrera(p, c) ==
    /\ transacciones' = p.transacciones
    /\ inventario' = p.inventario
    /\ context_store' = p.store
    /\ desajustes' = IF p.desajusta /\ desajustes < MaxDesajustes
                     THEN desajustes + 1 ELSE desajustes
    /\ resultado' = [op |-> "auto_handler", error |-> p.error, paso |-> p.paso,
                     respuesta |-> p.respuesta]
    /\ en_curso' = [en_curso EXCEPT
                      ![c] = [pc |-> IF p.aborta \/ Len(en_curso[c].pendientes) = 1
                                     THEN "hecho" ELSE "en_lote",
                              pendientes |-> Tail(en_curso[c].pendientes),
                              aceptadas |-> IF p.respuesta = "registrada"
                                            THEN en_curso[c].aceptadas
                                                    \cup {p.transaccion_id}
                                            ELSE en_curso[c].aceptadas]]
    /\ UNCHANGED <<reloj, lote>> /\ SinConversacion

ProcesarCarrera ==
    \E c \in Conexiones, ahora \in Universo.ahoras :
        /\ en_curso[c].pc = "en_lote"
        /\ EfectoCarrera(procesar_accion(transacciones, inventario, context_store,
                                         "u1", "u1", Head(en_curso[c].pendientes), 0,
                                         reloj, ahora),
                         c)

NextCarrera == IniciarCarrera \/ ProcesarCarrera \/ Tic

SpecCarrera == Init /\ [][NextCarrera]_vars

(***************************************************************************)
(* The conversations of bot.py, one update at a time: the sale and the     *)
(* purchase conversation (compra_* repeats venta_* with the other kind, so *)
(* each venta_* below stands for both), the modify conversation,           *)
(* /eliminar, /historial and a free-text message carrying one action.  The *)
(* chat is the private chat of the one person of the universe, so chat.id  *)
(* is that person's id.  estado is the pair of the conversation and its    *)
(* state; a command or a free text is taken only while no conversation is  *)
(* in progress.  resultado records the handler, the id the request         *)
(* presented and, for a button, its callback data.                         *)
(***************************************************************************)
UniversoConversacion ==
    [personas |-> {[id |-> "u1", full_name |-> "Ana", username |-> "None"]},
     tipos |-> {"venta", "compra"},
     productos |-> {"maiz", "ma"},
     numeros |-> {"1", "0", "abc"},
     unidades |-> {"kg"},
     omitidos |-> {"omitir"},
     botones |-> {"confirmar", "cancelar"},
     ahora |-> strftime(<<2025, 1, 31, 9, 0>>),
     acciones |-> {[AccionDe(TRUE, "compra", 0) EXCEPT !.cantidad = cantidad] :
                      cantidad \in {0, Escala}}]

\* float(text): the number in thousandths, or ValueError.
float(texto) ==
    CASE texto = "1" -> [error |-> FALSE, valor |-> Escala]
      [] texto = "0" -> [error |-> FALSE, valor |-> 0]
      [] OTHER -> [error |-> TRUE, valor |-> 0]

omitir(texto) == IF lower(texto) = "omitir" THEN "None" ELSE texto

registrar_usuario(datos, persona) ==
    LET worker_id == IF persona.full_name # "" THEN persona.full_name
                     ELSE persona.username
    IN [datos EXCEPT !.usuarios =
          [chat \in DOMAIN datos.usuarios \cup {persona.id} |->
              IF chat = persona.id THEN worker_id ELSE datos.usuarios[chat]]]

\* A handler that only talks: it answers and leaves the tables alone.
Atendido(op, persona) ==
    /\ resultado' = [op |-> op, error |-> "", paso |-> "", user_id |-> persona.id,
                     data |-> ""]
    /\ UNCHANGED <<transacciones, inventario, desajustes, context_store, reloj, lote,
                   en_curso>>

start_venta ==
    \E persona \in UniversoConversacion.personas, tipo \in UniversoConversacion.tipos :
        /\ estado = END
        /\ bot_data' = registrar_usuario(bot_data, persona)
        /\ estado' = <<tipo, "PRODUCTO">>
        /\ UNCHANGED user_data /\ Atendido("start", persona)

venta_producto ==
    \E persona \in UniversoConversacion.personas,
       texto \in UniversoConversacion.productos :
        /\ estado[1] \in UniversoConversacion.tipos /\ estado[2] = "PRODUCTO"
        /\ IF len(strip(texto)) < 3
           THEN UNCHANGED <<user_data, estado>>
           ELSE /\ user_data' = [user_data EXCEPT !.producto = strip(texto)]
                /\ estado' = <<estado[1], "CANTIDAD">>
        /\ UNCHANGED bot_data /\ Atendido("producto", persona)

venta_cantidad ==
    \E persona \in UniversoConversacion.personas,
       texto \in UniversoConversacion.numeros :
        /\ estado[1] \in UniversoConversacion.tipos /\ estado[2] = "CANTIDAD"
        /\ IF float(strip(texto)).error \/ float(strip(texto)).valor <= 0
           THEN UNCHANGED <<user_data, estado>>
           ELSE /\ user_data' = [user_data EXCEPT
                                   !.cantidad = <<float(strip(texto)).valor>>]
                /\ estado' = <<estado[1], "UNIDAD">>
        /\ UNCHANGED bot_data /\ Atendido("cantidad", persona)

venta_unidad ==
    \E persona \in UniversoConversacion.personas,
       texto \in UniversoConversacion.unidades :
        /\ estado[1] \in UniversoConversacion.tipos /\ estado[2] = "UNIDAD"
        /\ user_data' = [user_data EXCEPT !.unidad = lower(strip(texto))]
        /\ estado' = <<estado[1], "PRECIO">>
        /\ UNCHANGED bot_data /\ Atendido("unidad", persona)

venta_precio ==
    \E persona \in UniversoConversacion.personas,
       texto \in UniversoConversacion.numeros :
        /\ estado[1] \in UniversoConversacion.tipos /\ estado[2] = "PRECIO"
        /\ IF float(strip(texto)).error \/ float(strip(texto)).valor <= 0
           THEN UNCHANGED <<user_data, estado>>
           ELSE /\ user_data' = [user_data EXCEPT
                                   !.precio = <<float(strip(texto)).valor>>]
                /\ estado' = <<estado[1], "CLIENTE">>
        /\ UNCHANGED bot_data /\ Atendido("precio", persona)

venta_cliente ==
    \E persona \in UniversoConversacion.personas,
       texto \in UniversoConversacion.omitidos :
        /\ estado[1] \in UniversoConversacion.tipos /\ estado[2] = "CLIENTE"
        /\ user_data' = [user_data EXCEPT !.cliente = or_empty(omitir(strip(texto)))]
        /\ estado' = <<estado[1], "NOTA">>
        /\ UNCHANGED bot_data /\ Atendido("cliente", persona)

venta_nota ==
    \E persona \in UniversoConversacion.personas,
       texto \in UniversoConversacion.omitidos :
        /\ estado[1] \in UniversoConversacion.tipos /\ estado[2] = "NOTA"
        /\ user_data' = [user_data EXCEPT !.nota = or_empty(omitir(strip(texto)))]
        /\ estado' = <<estado[1], "CONFIRM">>
        /\ UNCHANGED bot_data /\ Atendido("nota", persona)

\* What a handler that called the database leaves: the tables, the data of
\* the conversation cleared and the conversation ended.
EfectoConversacion(s, op, persona, data) ==
    /\ transacciones' = s.transacciones
    /\ inventario' = s.inventario
    /\ desajustes' = IF Desajusta(s) /\ desajustes < MaxDesajustes
                     THEN desajustes + 1 ELSE desajustes
    /\ resultado' = [op |-> op, error |-> s.error, paso |-> s.paso,
                     user_id |-> persona.id, data |-> data]
    /\ user_data' = DictVacio
    /\ estado' = END
    /\ UNCHANGED <<bot_data, context_store, reloj, lote, en_curso>>

\* The handler of both buttons of the confirmation step: the pattern of
\* the CallbackQueryHandler lets confirmar_* and cancelar_* through, and
\* the handler does not read query.data.  The chat was registered by
\* start_venta, so its worker_id is there.
venta_confirmar ==
    \E persona \in UniversoConversacion.personas,
       data \in UniversoConversacion.botones, uuid \in IdsLibres :
        /\ estado[1] \in UniversoConversacion.tipos /\ estado[2] = "CONFIRM"
        /\ EfectoConversacion(
              agregar_salida(transacciones, inventario,
                             bot_data.usuarios[persona.id], estado[1],
                             user_data.producto, user_data.cantidad[1],
                             user_data.unidad, user_data.precio[1],
                             user_data.cliente, user_data.nota, "None", 0, uuid,
                             UniversoConversacion.ahora),
              "confirmar", persona, data)

\* The /cancel fallback of a conversation (modificar_cancel is the same).
venta_cancel ==
    \E persona \in UniversoConversacion.personas :
        /\ estado[1] \in UniversoConversacion.tipos \cup {"modificar"}
        /\ user_data' = DictVacio
        /\ estado' = END
        /\ UNCHANGED bot_data /\ Atendido("cancel", persona)

start_modificar ==
    \E persona \in UniversoConversacion.personas :
        /\ estado = END
        /\ estado' = <<"modificar", "ID">>
        /\ UNCHANGED <<bot_data, user_data>> /\ Atendido("start", persona)

modificar_id ==
    \E persona \in UniversoConversacion.personas, trans_id \in Ids :
        /\ estado = <<"modificar", "ID">>
        /\ user_data' = [user_data EXCEPT !.transaccion_id = trans_id]
        /\ estado' = <<"modificar", "PRODUCTO">>
        /\ UNCHANGED bot_data /\ Atendido("id", persona)

modificar_producto ==
    \E persona \in UniversoConversacion.personas,
       texto \in UniversoConversacion.omitidos :
        /\ estado = <<"modificar", "PRODUCTO">>
        /\ user_data' = [user_data EXCEPT !.producto = omitir(strip(texto))]
        /\ estado' = <<"modificar", "CANTIDAD">>
        /\ UNCHANGED bot_data /\ Atendido("producto", persona)

\* The number typed is stored as float(text) gives it, whatever its sign.
modificar_cantidad ==
    \E persona \in UniversoConversacion.personas,
       texto \in UniversoConversacion.numeros \cup UniversoConversacion.omitidos :
        /\ estado = <<"modificar", "CANTIDAD">>
        /\ IF lower(strip(texto)) = "omitir"
           THEN /\ user_data' = [user_data EXCEPT !.cantidad = <<>>]
                /\ estado' = <<"modificar", "PRECIO">>
           ELSE IF float(strip(texto)).error
           THEN UNCHANGED <<user_data, estado>>
           ELSE /\ user_data' = [user_data EXCEPT
                                   !.cantidad = <<float(strip(texto)).valor>>]
                /\ estado' = <<"modificar", "PRECIO">>
        /\ UNCHANGED bot_data /\ Atendido("cantidad", persona)

modificar_precio ==
    \E persona \in UniversoConversacion.personas,
       texto \in UniversoConversacion.numeros \cup UniversoConversacion.omitidos :
        /\ estado = <<"modificar", "PRECIO">>
        /\ IF lower(strip(texto)) = "omitir"
           THEN /\ user_data' = [user_data EXCEPT !.precio = <<>>]
                /\ estado' = <<"modificar", "CLIENTE">>
           ELSE IF float(strip(texto)).error
           THEN UNCHANGED <<user_data, estado>>
           ELSE /\ user_data' = [user_data EXCEPT
                                   !.precio = <<float(strip(texto)).valor>>]
                /\ estado' = <<"modificar", "CLIENTE">>
        /\ UNCHANGED bot_data /\ Atendido("precio", persona)

modificar_cliente ==
    \E persona \in UniversoConversacion.personas,
       texto \in UniversoConversacion.omitidos :
        /\ estado = <<"modificar", "CLIENTE">>
        /\ user_data' = [user_data EXCEPT !.cliente = omitir(strip(texto))]
        /\ estado' = <<"modificar", "NOTA">>
        /\ UNCHANGED bot_data /\ Atendido("cliente", persona)

modificar_nota ==
    \E persona \in UniversoConversacion.personas,
       texto \in UniversoConversacion.omitidos :
        /\ estado = <<"modificar", "NOTA">>
        /\ user_data' = [user_data EXCEPT !.nota = omitir(strip(texto))]
        /\ estado' = <<"modificar", "UNIDAD">>
        /\ UNCHANGED bot_data /\ Atendido("nota", persona)

modificar_unidad ==
    \E persona \in UniversoConversacion.personas,
       texto \in UniversoConversacion.omitidos :
        /\ estado = <<"modificar", "UNIDAD">>
        /\ user_data' = [user_data EXCEPT !.unidad = omitir(lower(strip(texto)))]
        /\ estado' = <<"modificar", "CONFIRM">>
        /\ UNCHANGED bot_data /\ Atendido("unidad", persona)

\* nuevos_datos as modificar_confirmar builds it from the keys of user_data
\* that are not None.
nuevos_datos_de(datos) ==
    [campos |-> {c \in {"producto", "unidad", "cliente"} : datos[c] # "None"}
                  \cup {c \in {"cantidad", "precio"} : datos[c] # <<>>}
                  \cup (IF datos.nota # "None" THEN {"notas"} ELSE {}),
     valores |-> [tipo |-> "None", producto |-> datos.producto,
                  cantidad |-> IF datos.cantidad = <<>> THEN 0 ELSE datos.cantidad[1],
                  unidad |-> datos.unidad,
                  precio |-> IF datos.precio = <<>> THEN 0 ELSE datos.precio[1],
                  cliente |-> datos.cliente, notas |-> datos.nota]]

modificar_confirmar ==
    \E persona \in UniversoConversacion.personas,
       data \in UniversoConversacion.botones :
        /\ estado = <<"modificar", "CONFIRM">>
        /\ EfectoConversacion(
              IF data = "confirmar"
              THEN modificar_salida(transacciones, inventario, user_data.transaccion_id,
                                    persona.id, nuevos_datos_de(user_data))
              ELSE Salida("modificar", "", "cancelada", transacciones, inventario),
              "modificar_confirmar", persona, data)

\* /eliminar <id> deletes at once (args is the id, 0 when none is given);
\* /eliminar alone proposes the first row of the history of the requester
\* (obtener_ultimo_transaccion), if there is one.
eliminar_inicio ==
    \E persona \in UniversoConversacion.personas, args \in Ids \cup {0} :
        /\ estado = END
        /\ IF args # 0
           THEN EfectoConversacion(eliminar_salida(transacciones, inventario, args,
                                                   persona.id),
                                   "eliminar_inicio", persona, "")
           ELSE \E h \in obtener_historial_df(transacciones, persona.id) :
                   /\ IF h = <<>>
                      THEN UNCHANGED <<user_data, estado>>
                      ELSE /\ user_data' = [user_data EXCEPT
                                              !.transaccion_a_eliminar = h[1].id]
                           /\ estado' = <<"eliminar", "CONFIRMAR_ELIMINAR">>
                   /\ UNCHANGED bot_data /\ Atendido("eliminar_inicio", persona)

handle_eliminar_callback ==
    \E persona \in UniversoConversacion.personas,
       data \in UniversoConversacion.botones :
        /\ estado = <<"eliminar", "CONFIRMAR_ELIMINAR">>
        /\ EfectoConversacion(
              IF data = "confirmar"
              THEN eliminar_salida(transacciones, inventario,
                                   user_data.transaccion_a_eliminar, persona.id)
              ELSE Salida("eliminar", "", "cancelada", transacciones, inventario),
              "handle_eliminar_callback", persona, data)

historial ==
    \E persona \in UniversoConversacion.personas :
        \E h \in obtener_historial_df(transacciones, persona.id) :
            /\ estado = END
            /\ resultado' = [op |-> "historial", error |-> "", paso |-> "",
                             user_id |-> persona.id, data |-> "", valor |-> h]
            /\ UNCHANGED <<transacciones, inventario, desajustes, context_store, reloj,
                           lote, en_curso>>
            /\ SinConversacion

\* A free-text message whose analysis yields one action without id: the
\* whole of auto_handler.  The actor stored is the worker_id of the chat
\* or, in a chat not registered, the username or else the id of the sender.
EfectoLibre(p, persona) ==
    /\ transacciones' = p.transacciones
    /\ inventario' = p.inventario
    /\ context_store' = p.store
    /\ desajustes' = IF p.desajusta /\ desajustes < MaxDesajustes
                     THEN desajustes + 1 ELSE desajustes
    /\ resultado' = [op |-> "auto_handler", error |-> p.error, paso |-> p.paso,
                     user_id |-> persona.id, data |-> ""]
    /\ UNCHANGED <<reloj, lote, en_curso>> /\ SinConversacion

auto_handler ==
    \E persona \in UniversoConversacion.personas,
       accion \in UniversoConversacion.acciones, uuid \in IdsLibres :
        /\ estado = END
        /\ EfectoLibre(
              procesar_accion(transacciones, inventario,
                              analizar_mensaje(context_store, persona.id, TRUE, "corto",
                                               "corto", reloj),
                              persona.id,
                              IF persona.id \in DOMAIN bot_data.usuarios
                              THEN bot_data.usuarios[persona.id]
                              ELSE IF persona.username # "None" THEN persona.username
                              ELSE persona.id,
                              accion, uuid, reloj, UniversoConversacion.ahora),
              persona)

SpecConversacion ==
    Init /\ [][\/ start_venta \/ venta_producto \/ venta_cantidad \/ venta_unidad
               \/ venta_precio \/ venta_cliente \/ venta_nota \/ venta_confirmar
               \/ venta_cancel
               \/ start_modificar \/ modificar_id \/ modificar_producto
               \/ modificar_cantidad \/ modificar_precio \/ modificar_cliente
               \/ modificar_nota \/ modificar_unidad \/ modificar_confirmar
               \/ eliminar_inicio \/ handle_eliminar_callback \/ historial
               \/ auto_handler]_vars

(***************************************************************************)
(* The three handlers on a ledger that also holds entries of a kind that   *)
(* is neither purchase nor sale ("gasto"): one actor, one product.         *)
(* Entries are created with a quantity of 1 and Modify rewrites the        *)
(* quantity to 2, keeping the kind.                                        *)
(***************************************************************************)
UniversoGasto ==
    [Universo EXCEPT !.usuarios = {"u1"},
                     !.tipos_entrada = {"compra", "venta", "gasto"},
                     !.productos_entrada = {"maiz"}, !.productos = {"maiz"},
                     !.cantidades_entrada = {Escala}, !.cantidades = {2 * Escala},
                     !.unidades_entrada = {"kg"}, !.unidades = {"kg"},
                     !.campos = {{"cantidad"}}]

SpecGasto ==
    Init /\ [][\/ AgregarEn(UniversoGasto) \/ ModificarEn(UniversoGasto)
               \/ EliminarEn(UniversoGasto)]_vars

(***************************************************************************)
(* The loop of auto_handler when the store may fail.  Two users send       *)
(* batches of purchases that carry their ids; in an iteration the database *)
(* may be out of reach (falla), and then the INSERT of agregar_transaccion *)
(* raises sqlite3.OperationalError with nothing written; an id already in  *)
(* the cache is skipped before the database is tried.                      *)
(***************************************************************************)
IniciarFallo ==
    \E user_id \in UsuariosChat,
       acciones \in UNION {[1..n -> {AccionDe(TRUE, "compra", i) : i \in Ids}] :
                             n \in 1..MaxLote} :
        /\ ~lote.activo
        /\ context_store' = analizar_mensaje(context_store, user_id, TRUE, "corto",
                                             "corto", reloj)
        /\ lote' = [activo |-> TRUE, user_id |-> user_id, registrado_por |-> user_id,
                    pendientes |-> acciones, hechas |-> <<>>]
        /\ resultado' = [op |-> "analizar_mensaje", error |-> "", paso |-> ""]
        /\ UNCHANGED <<transacciones, inventario, desajustes, reloj, en_curso>>
        /\ SinConversacion

ProcesarFallo ==
    /\ lote.activo
    /\ \E falla \in BOOLEAN, ahora \in Universo.ahoras :
          IF falla
          THEN EfectoLote(registrar_accion(
                              IF is_action_id_registered(
                                     context_store, lote.user_id,
                                     Head(lote.pendientes).transaccion_id, reloj).valor
                              THEN sin_cambios(transacciones, inventario)
                              ELSE Salida("agregar", "OperationalError", "insertar",
                                          transacciones, inventario),
                              is_action_id_registered(
                                  context_store, lote.user_id,
                                  Head(lote.pendientes).transaccion_id, reloj),
                              lote.user_id, Head(lote.pendientes).transaccion_id,
                              reloj))
          ELSE EfectoLote(procesar_accion(transacciones, inventario, context_store,
                                          lote.user_id, lote.registrado_por,
                                          Head(lote.pendientes), 0, reloj, ahora))

SpecFallo == Init /\ [][IniciarFallo \/ ProcesarFallo \/ Tic]_vars

(***************************************************************************)
(* A caller that compensates: when a Create fails in its inventory step    *)
(* the caller at once deletes the entry the Create left in the ledger.     *)
(* en_curso["A"] holds the id and the actor of the failed Create and the   *)
(* tables as they were before it (antes), then the outcome of the Delete.  *)
(***************************************************************************)
EfectoCompensable(s, transaccion_id, usuario) ==
    /\ transacciones' = s.transacciones
    /\ inventario' = s.inventario
    /\ resultado' = [op |-> s.op, error |-> s.error, paso |-> s.paso]
    /\ desajustes' = IF Desajusta(s) /\ desajustes < MaxDesajustes
                     THEN desajustes + 1 ELSE desajustes
    /\ en_curso' = [en_curso EXCEPT
                      !["A"] = IF Desajusta(s)
                               THEN [pc |-> "fallido",
                                     transaccion_id |-> transaccion_id,
                                     usuario |-> usuario,
                                     antes |-> [transacciones |-> transacciones,
                                                inventario |-> inventario]]
                               ELSE Libre]
    /\ SoloTablas

AgregarCompensable ==
    \E usuario \in Universo.creadores, tipo \in Universo.tipos_entrada,
       producto \in {"maiz"}, cantidad \in Universo.cantidades_entrada,
       unidad \in Universo.unidades_entrada, uuid \in IdsLibres,
       ahora \in Universo.ahoras :
        /\ en_curso["A"].pc # "fallido"
        /\ EfectoCompensable(
              agregar_salida(transacciones, inventario, usuario, tipo, producto,
                             cantidad, unidad, 5 * Escala, "None", "None", "None", 0,
                             uuid, ahora),
              uuid, usuario)

EfectoCompensar(s) ==
    /\ transacciones' = s.transacciones
    /\ inventario' = s.inventario
    /\ resultado' = [op |-> s.op, error |-> s.error, paso |-> s.paso]
    /\ en_curso' = [en_curso EXCEPT !["A"].pc = "compensado"]
    /\ UNCHANGED desajustes /\ SoloTablas

Compensar ==
    /\ en_curso["A"].pc = "fallido"
    /\ EfectoCompensar(eliminar_salida(transacciones, inventario,
                                       en_curso["A"].transaccion_id,
                                       en_curso["A"].usuario))

EliminarCompensar ==
    /\ en_curso["A"].pc # "fallido"
    /\ \E transaccion_id \in Ids, usuario \in Universo.creadores :
          EfectoCompensable(eliminar_salida(transacciones, inventario, transaccion_id,
                                            usuario),
                            transaccion_id, usuario)

SpecCompensar ==
    Init /\ [][AgregarCompensable \/ Compensar \/ EliminarCompensar]_vars

(***************************************************************************)
(* The sequences of calls in which every call returns without error: the   *)
(* steps of the main specification that raise nothing.                     *)
(***************************************************************************)
SpecSinError ==
    Init /\ [][\/ Agregar /\ resultado'.error = ""
               \/ Modificar /\ resultado'.error = ""
               \/ Eliminar /\ resultado'.error = ""]_vars

(***************************************************************************)
(* The ledger / inventory relation.                                        *)
(***************************************************************************)
RECURSIVE SumaFirmada(_, _)
SumaFirmada(filas, unidad) ==
    IF filas = {} THEN 0
    ELSE LET f == CHOOSE x \in filas : TRUE
             c == convert_units(f.unidad, unidad, f.cantidad, 0).cantidad
         IN (IF f.tipo = "compra" THEN c ELSE 0 - c) + SumaFirmada(filas \ {f}, unidad)

Vivas(tr, producto) ==
    {f \in tr : f.producto = producto /\ AfectaInventario(f.tipo)}

InventarioIgualAlLibro ==
    \A r \in inventario :
        r.cantidad = SumaFirmada(Vivas(transacciones, r.producto), r.unidad)

C2_NuncaNegativo == \A r \in inventario : r.cantidad >= 0

C2_Witness ==
    /\ resultado.op = "agregar" /\ resultado.error = ""
    /\ \E r \in inventario :
        /\ r.cantidad = 0
        /\ \E f \in transacciones : f.tipo = "venta" /\ f.producto = r.producto

ErroresDeInventario == {"InsufficientStock", "UnknownProduct"}

\* C3 (as stated): a Modify or Delete that returns an inventory error, at
\* whichever inventory step it arises, leaves the ledger and the inventory
\* exactly as they were before the call.
C3_ErrorDeInventarioSinCambios ==
    [][(resultado'.op \in {"modificar", "eliminar"}
            /\ resultado'.error \in ErroresDeInventario)
          => (transacciones' = transacciones /\ inventario' = inventario)]_vars

\* C4: when the inventory step of Create fails, the caller gets the error,
\* the row that this Create appended stays in the ledger (and nothing else
\* in the ledger changes) and the inventory is unchanged.
C4_CrearFallidoDejaFila ==
    [][(resultado'.op = "agregar" /\ resultado'.error \in ErroresDeInventario)
          => /\ inventario' = inventario
             /\ \E fila \in transacciones' :
                   /\ ~Existe(transacciones, fila.id)
                   /\ fila.tipo = "venta"
                   /\ transacciones' = transacciones \cup {fila}]_vars

C4_Witness ==
    /\ resultado.op = "agregar" /\ resultado.error \in ErroresDeInventario
    /\ Cardinality(transacciones) = 2
    /\ inventario # {}

\* C5: a sale applied to a product that has no inventory record fails with
\* the unknown-product error and creates no record for that product; after a
\* Create that failed this way the sale's product still has no record.
C5_VentaDeProductoDesconocido ==
    /\ \A producto \in Universo.productos, unidad \in Universo.unidades,
          cantidad \in Universo.cantidades :
          ~HayInventario(inventario, producto)
             => LET s == actualizar_inventario(inventario, producto, unidad, cantidad,
                                               "venta")
                IN s.error = "UnknownProduct" /\ s.inv = inventario
    /\ (resultado.op = "agregar" /\ resultado.error = "UnknownProduct")
          => \E fila \in transacciones :
                fila.tipo = "venta" /\ ~HayInventario(inventario, fila.producto)

C5_Witness ==
    /\ resultado.op = "agregar" /\ resultado.error = "UnknownProduct"
    /\ \E fila \in transacciones :
          fila.tipo = "venta" /\ ~HayInventario(inventario, fila.producto)

\* C6: a sale whose converted quantity exceeds the stock fails with the
\* insufficient-stock error and leaves the record as it was (2000 kilos
\* against 500 in stock leaves 500); a sale of exactly the stock succeeds and
\* leaves zero.
Existencias(producto, cantidad, unidad) ==
    {[producto |-> producto, cantidad |-> cantidad, unidad |-> unidad]}

C6_VentaMayorQueExistencias ==
    /\ \A r \in inventario, unidad \in Universo.unidades :
        \A cantidad \in Universo.cantidades \cup {r.cantidad} :
          LET pedida == convert_units(unidad, r.unidad, cantidad, 0).cantidad
              s == actualizar_inventario(inventario, r.producto, unidad, cantidad,
                                         "venta")
          IN /\ pedida > r.cantidad
                  => s.error = "InsufficientStock" /\ s.inv = inventario
             /\ pedida = r.cantidad
                  => /\ s.error = ""
                     /\ s.inv = (inventario \ {r}) \cup {[r EXCEPT !.cantidad = 0]}
    /\ actualizar_inventario(Existencias("maiz", 500 * Escala, "kilos"), "maiz",
                             "kilos", 2000 * Escala, "venta")
          = [error |-> "InsufficientStock",
             inv |-> Existencias("maiz", 500 * Escala, "kilos")]
    /\ actualizar_inventario(Existencias("maiz", 500 * Escala, "kilos"), "maiz",
                             "kilos", 500 * Escala, "venta")
          = [error |-> "", inv |-> Existencias("maiz", 0, "kilos")]
    /\ (resultado.op = "agregar" /\ resultado.error = "InsufficientStock")
          => \E fila \in transacciones :
                /\ fila.tipo = "venta"
                /\ \E r \in inventario :
                      /\ r.producto = fila.producto
                      /\ convert_units(fila.unidad, r.unidad, fila.cantidad, 0).cantidad
                            > r.cantidad

C6_Witness ==
    /\ resultado.op = "agregar" /\ resultado.error = "InsufficientStock"
    /\ \E fila \in transacciones, r \in inventario :
          /\ fila.tipo = "venta" /\ r.producto = fila.producto
          /\ fila.unidad # r.unidad
          /\ r.cantidad > 0

(***************************************************************************)
(* Kilos in one unit of each spelling, written out independently of        *)
(* CONVERSION_FACTORS: 1 caja = 50 kilos, 1 tonelada = 1000 kilos.         *)
(***************************************************************************)
KilosPor(unidad) ==
    CASE unidad \in {"kg", "kilos"} -> 1
      [] unidad \in {"caja", "cajas"} -> 50
      [] unidad \in {"ton", "toneladas"} -> 1000

CompraYVenta(inv, producto) ==
    actualizar_inventario(
        actualizar_inventario(inv, producto, "cajas", 10 * Escala, "compra").inv,
        producto, "kilos", 100 * Escala, "venta")

\* C7 (as stated): a purchase of 10 cajas of a product with no prior
\* inventory followed by a sale of 100 kilos of it leaves that product's
\* inventory record at 400 kilos.
C7_Original ==
    \A producto \in Universo.productos :
        ~HayInventario(inventario, producto)
           => LET s == CompraYVenta(inventario, producto)
              IN /\ s.error = ""
                 /\ RegistroDe(s.inv, producto)
                       = [producto |-> producto, cantidad |-> 400 * Escala,
                          unidad |-> "kilos"]

\* C7 (amended): a sale recorded in a unit other than the record's is
\* converted into the record's unit before it is subtracted, and the record
\* keeps the unit of the purchase that created it: a purchase of 10 cajas of
\* a product with no prior inventory followed by a sale of 100 kilos leaves
\* the record at 8 cajas (the equivalent of 400 kilos).
C7_VentaConvertida ==
    /\ \A r \in inventario, unidad \in Universo.unidades,
          cantidad \in Universo.cantidades :
          LET pedida == (cantidad * KilosPor(unidad)) \div KilosPor(r.unidad)
              s == actualizar_inventario(inventario, r.producto, unidad, cantidad,
                                         "venta")
          IN pedida <= r.cantidad
                => /\ s.error = ""
                   /\ s.inv = (inventario \ {r})
                                 \cup {[r EXCEPT !.cantidad = r.cantidad - pedida]}
    /\ \A producto \in Universo.productos :
          ~HayInventario(inventario, producto)
             => LET s == CompraYVenta(inventario, producto)
                IN /\ s.error = ""
                   /\ s.inv = inventario
                         \cup {[producto |-> producto, cantidad |-> 8 * Escala,
                                unidad |-> "cajas"]}

C7_Witness ==
    /\ resultado.op = "agregar" /\ resultado.error = ""
    /\ \E r \in inventario :
          /\ r.unidad = "cajas" /\ r.cantidad = Escala - Escala \div 50
          /\ \E f, g \in transacciones :
                /\ f.producto = r.producto /\ f.tipo = "compra" /\ f.unidad = "cajas"
                /\ g.producto = r.producto /\ g.tipo = "venta" /\ g.unidad = "kg"

\* C8: a Modify or Delete requested by an actor other than the one stored on
\* the entry fails with the permission error and changes no ledger row and
\* no inventory record.
C8_PermisoDenegado ==
    \A fila \in transacciones, usuario \in Universo.usuarios :
        usuario # fila.usuario
           => /\ \A nuevos_datos \in NuevosDatos(Universo) :
                    modificar_salida(transacciones, inventario, fila.id, usuario,
                                     nuevos_datos)
                       = Salida("modificar", "PermissionDenied", "permiso",
                                transacciones, inventario)
              /\ eliminar_salida(transacciones, inventario, fila.id, usuario)
                    = Salida("eliminar", "PermissionDenied", "permiso",
                             transacciones, inventario)

C8_Witness ==
    /\ resultado.error = "PermissionDenied"
    /\ \E fila \in transacciones :
          AfectaInventario(fila.tipo) /\ HayInventario(inventario, fila.producto)

\* C9: a Modify or Delete of an id that is not in the ledger fails with the
\* not-found error, and the ledger and the inventory are unchanged.
C9_NoEncontrada ==
    \A id \in Ids, usuario \in Universo.usuarios :
        ~Existe(transacciones, id)
           => /\ \A nuevos_datos \in NuevosDatos(Universo) :
                    modificar_salida(transacciones, inventario, id, usuario,
                                     nuevos_datos)
                       = Salida("modificar", "NotFound", "buscar",
                                transacciones, inventario)
              /\ eliminar_salida(transacciones, inventario, id, usuario)
                    = Salida("eliminar", "NotFound", "buscar",
                             transacciones, inventario)

C9_Witness ==
    /\ resultado.error = "NotFound"
    /\ transacciones # {}
    /\ inventario # {}

\* C10: a successful Modify changes, on the row it names, exactly the fields
\* that are keys of nuevos_datos (among tipo, producto, cantidad, unidad,
\* precio, cliente, notas) to the values given; every other field of the row
\* keeps its value, id, usuario and fecha always do, and no other ledger row
\* changes.
C10_SoloCamposPresentes ==
    \A fila \in transacciones, nuevos_datos \in NuevosDatos(UniversoMarcoTotal) :
        LET s == modificar_salida(transacciones, inventario, fila.id, fila.usuario,
                                  nuevos_datos)
        IN s.error = ""
              => \E nueva \in s.transacciones :
                    /\ nueva.id = fila.id
                    /\ nueva.usuario = fila.usuario
                    /\ nueva.fecha = fila.fecha
                    /\ s.transacciones \ {nueva} = transacciones \ {fila}
                    /\ \A campo \in Campos :
                          nueva[campo] = IF campo \in nuevos_datos.campos
                                         THEN nuevos_datos.valores[campo]
                                         ELSE fila[campo]

C10_Witness ==
    /\ resultado.op = "modificar" /\ resultado.error = ""
    /\ \E f, g \in transacciones :
          /\ f.id # g.id
          /\ f.precio = 7 * Escala /\ f.cliente = "ana" /\ f.notas = ""
          /\ f.fecha # g.fecha

(***************************************************************************)
(* A ledger row written out in full, for the worked examples.              *)
(***************************************************************************)
Asiento(id, tipo, producto, cantidad, unidad) ==
    [id |-> id, usuario |-> "u1", tipo |-> tipo, producto |-> producto,
     cantidad |-> cantidad, unidad |-> unidad, precio |-> 5 * Escala,
     cliente |-> "", notas |-> "", fecha |-> "01/01/2025 09:00AM"]

EnUnidad(cantidad, unidad, unidad_registro) ==
    (cantidad * KilosPor(unidad)) \div KilosPor(unidad_registro)

ConCantidad(inv, r, cantidad) == (inv \ {r}) \cup {[r EXCEPT !.cantidad = cantidad]}

\* C11: a successful Modify of a purchase entry whose nuevos_datos carries
\* only a quantity q' changes the record of the entry's product by q' - q
\* converted into the record's unit (10 to 15 kilos adds exactly 5 kilos) and
\* leaves every other product's record as it was.
C11_ModificarCantidad ==
    /\ \A fila \in transacciones, nuevos_datos \in NuevosDatos(Universo) :
          (fila.tipo = "compra" /\ nuevos_datos.campos = {"cantidad"})
             => LET s == modificar_salida(transacciones, inventario, fila.id,
                                          fila.usuario, nuevos_datos)
                IN s.error = ""
                      => \E r \in inventario :
                            /\ r.producto = fila.producto
                            /\ s.inventario
                                  = ConCantidad(inventario, r,
                                       r.cantidad
                                         + EnUnidad(nuevos_datos.valores.cantidad,
                                                    fila.unidad, r.unidad)
                                         - EnUnidad(fila.cantidad, fila.unidad, r.unidad))
    /\ LET libro == {Asiento(1, "compra", "maiz", 10 * Escala, "kilos")}
           frijol == Existencias("frijol", 7 * Escala, "kilos")
           s == modificar_salida(libro, Existencias("maiz", 10 * Escala, "kilos") \cup frijol,
                                 1, "u1",
                                 [campos |-> {"cantidad"},
                                  valores |-> [cantidad |-> 15 * Escala]])
       IN /\ s.error = ""
          /\ s.inventario = Existencias("maiz", 15 * Escala, "kilos") \cup frijol

C11_Witness ==
    /\ resultado.op = "modificar" /\ resultado.error = ""
    /\ \E r, o \in inventario :
          /\ o.producto # r.producto
          /\ r.unidad = "kg" /\ r.cantidad = 101 * Escala
          /\ \E f \in transacciones :
                /\ f.producto = r.producto /\ f.tipo = "compra"
                /\ f.unidad = "cajas" /\ f.cantidad = 2 * Escala

\* C12: Delete of a sale entry by its owner removes the entry's row (and no
\* other) and adds the entry's quantity, converted into the record's unit, to
\* the record of the entry's product; a sale of 3 toneladas deleted when the
\* record is in kilos restores 3000 kilos.  When the product has no record the
\* quantity is restored as a new record in the entry's unit.
C12_EliminarVentaRestaura ==
    /\ \A fila \in transacciones :
          fila.tipo = "venta"
             => LET s == eliminar_salida(transacciones, inventario, fila.id,
                                         fila.usuario)
                IN /\ s.error = ""
                   /\ s.transacciones = transacciones \ {fila}
                   /\ \A r \in inventario :
                         r.producto = fila.producto
                            => s.inventario
                                 = ConCantidad(inventario, r,
                                      r.cantidad
                                        + EnUnidad(fila.cantidad, fila.unidad, r.unidad))
                   /\ ~HayInventario(inventario, fila.producto)
                         => s.inventario
                              = inventario
                                  \cup Existencias(fila.producto, fila.cantidad,
                                                   fila.unidad)
    /\ LET compra == Asiento(1, "compra", "maiz", 5000 * Escala, "kilos")
           venta == Asiento(2, "venta", "maiz", 3 * Escala, "toneladas")
           s == eliminar_salida({compra, venta},
                                Existencias("maiz", 2000 * Escala, "kilos"), 2, "u1")
       IN s = Salida("eliminar", "", "", {compra},
                     Existencias("maiz", 5000 * Escala, "kilos"))

C12_Witness ==
    /\ resultado.op = "eliminar" /\ resultado.error = ""
    /\ \E r \in inventario :
          /\ r.unidad = "kg" /\ r.cantidad = 51 * Escala
          /\ Vivas(transacciones, r.producto) # {}
          /\ \A f \in Vivas(transacciones, r.producto) :
                f.tipo = "compra" /\ f.unidad = "kg" /\ f.cantidad = Escala

\* C13: reverting a sale never fails.  Applying a purchase to any reachable
\* inventory returns without error; so for every sale entry Delete by the
\* owner succeeds, and Modify by the owner never fails in its reversal step,
\* whatever nuevos_datos it is given.
C13_RevertirVentaNoFalla ==
    /\ \A producto \in Universo.productos, unidad \in Universo.unidades,
          cantidad \in Universo.cantidades :
          actualizar_inventario(inventario, producto, unidad, cantidad,
                                revertir_tipo("venta")).error = ""
    /\ \A fila \in transacciones :
          fila.tipo = "venta"
             => /\ eliminar_salida(transacciones, inventario, fila.id,
                                   fila.usuario).error = ""
                /\ \A nuevos_datos \in NuevosDatos(Universo) :
                      modificar_salida(transacciones, inventario, fila.id,
                                       fila.usuario, nuevos_datos).paso # "revertir"

C13_Witness ==
    /\ resultado.op = "eliminar" /\ resultado.error = ""
    /\ transacciones = {}
    /\ \E r \in inventario : r.unidad = "cajas" /\ r.cantidad = 2 * Escala

\* C14 (as stated): an inventory record for a product is created only as the
\* effect of a purchase entry of that product: a call that creates a record
\* leaves a purchase entry of the product in the ledger, so calls that
\* involve only sale entries of a product create no record for it.
C14_RegistroSoloPorCompra ==
    [][\A r \in inventario' :
          ~HayInventario(inventario, r.producto)
             => \E f \in transacciones' :
                   f.producto = r.producto /\ f.tipo = "compra"]_vars

\* C15: once a product has an inventory record, every call leaves it with
\* exactly one record, in the same unit: no call removes the record, not even
\* when its quantity reaches zero, and only its quantity changes.  A record
\* that a call creates has the unit of the entry whose application created
\* it.
C15_RegistroPermanente ==
    [][/\ \A r \in inventario :
             \E r2 \in inventario' :
                /\ r2.producto = r.producto /\ r2.unidad = r.unidad
                /\ \A r3 \in inventario' : r3.producto = r.producto => r3 = r2
       /\ \A r \in inventario' :
             ~HayInventario(inventario, r.producto)
                => \E f \in transacciones \cup transacciones' :
                      f.producto = r.producto /\ f.unidad = r.unidad]_vars

C15_Witness ==
    /\ resultado.op = "eliminar" /\ resultado.error = ""
    /\ desajustes = 0
    /\ \E r \in inventario :
          /\ r.cantidad = 0 /\ r.unidad = "cajas"
          /\ Vivas(transacciones, r.producto) = {}
    /\ \E f \in transacciones : f.unidad = "kg"

(***************************************************************************)
(* The id set a call finds for a user at clock reading now: the stored one *)
(* when the user has a context that has been idle for at most CONTEXT_TTL  *)
(* seconds, the empty set when there is none or it has expired.            *)
(***************************************************************************)
Vigente(store, user_id, now) ==
    user_id \in DOMAIN store /\ now - store[user_id].last_active <= CONTEXT_TTL

IdsVigentes(store, user_id, now) ==
    IF Vigente(store, user_id, now) THEN store[user_id].accion_ids ELSE {}

Lecturas == {reloj}

\* C17: add_action_id returns TRUE and adds the id to the user's id set when
\* the id is not in that set, and returns FALSE and leaves the store as it is
\* when it is; no other user's context changes.  Of two consecutive calls
\* with the same user and id inside one live context the second returns
\* FALSE and changes nothing.
C17_AddActionId ==
    \A user_id \in UsuariosChat, accion_id \in Ids, now \in Lecturas :
        LET ids == IdsVigentes(context_store, user_id, now)
            s == add_action_id(context_store, user_id, accion_id, now)
        IN /\ s.valor = (accion_id \notin ids)
           /\ s.store[user_id].accion_ids = ids \cup {accion_id}
           /\ accion_id \in ids => s.store = context_store
           /\ DOMAIN s.store = DOMAIN context_store \cup {user_id}
           /\ \A otro \in DOMAIN context_store \ {user_id} :
                 s.store[otro] = context_store[otro]
           /\ \A now_2 \in Instantes :
                 (now_2 >= now /\ Vigente(s.store, user_id, now_2))
                    => add_action_id(s.store, user_id, accion_id, now_2)
                          = [valor |-> FALSE, store |-> s.store]

C17_Witness ==
    /\ resultado.op = "add_action_id" /\ ~resultado.valor
    /\ reloj > 0
    /\ \E user_id \in DOMAIN context_store :
          /\ Cardinality(context_store[user_id].accion_ids) = 2
          /\ context_store[user_id].messages # <<>>
          /\ \E otro \in DOMAIN context_store :
                otro # user_id /\ context_store[otro].accion_ids # {}

\* C18 (as stated): is_action_id_registered is a pure membership check: a
\* call by any user, for any id, at any time leaves the whole context store
\* (every user's message window, id set and last-active time, and the set of
\* users that have a context) unchanged.
C18_ConsultaPura ==
    \A user_id \in UsuariosChat, accion_id \in Ids, now \in Lecturas :
        (user_id \in DOMAIN context_store
            /\ context_store[user_id].messages # <<>>)
           => is_action_id_registered(context_store, user_id, accion_id, now).store
                 = context_store

\* C19 (as stated): an access more than CONTEXT_TTL seconds after the user's
\* last activity resets the context (empty window, empty id set), an access
\* within CONTEXT_TTL keeps both, and every call of the user on the store
\* (adding a message, recording or checking an id) is activity: after it the
\* last-active time is the time of the call.
C19_TodaOperacionEsActividad ==
    \A user_id \in DOMAIN context_store, accion_id \in Ids, now \in Lecturas :
        LET context == context_store[user_id]
            acceso == get_context(context_store, user_id, now)[user_id]
        IN /\ now - context.last_active > CONTEXT_TTL
                 => acceso.messages = <<>> /\ acceso.accion_ids = {}
           /\ now - context.last_active <= CONTEXT_TTL
                 => /\ acceso.messages = context.messages
                    /\ acceso.accion_ids = context.accion_ids
           /\ \A content \in Contenidos :
                 add_message(context_store, user_id, "user", content,
                             now)[user_id].last_active = now
           /\ add_action_id(context_store, user_id, accion_id,
                             now).store[user_id].last_active = now
           /\ is_action_id_registered(context_store, user_id, accion_id,
                                       now).store[user_id].last_active = now

\* C16 (as stated): when a create request of a batch carries the action id
\* of an earlier create request of the same batch (same user), it is rejected
\* as a duplicate action and changes neither the ledger nor the inventory,
\* whatever the outcome of the earlier one (a failure in its inventory step
\* included).
C16_DuplicadaEnLote ==
    [][(/\ lote.activo
        /\ resultado'.op = "auto_handler"
        /\ ~Head(lote.pendientes).error
        /\ Head(lote.pendientes).numerico
        /\ Head(lote.pendientes).transaccion_id # 0
        /\ \E i \in DOMAIN lote.hechas :
              lote.hechas[i].transaccion_id = Head(lote.pendientes).transaccion_id)
          => /\ resultado'.respuesta = "duplicada"
             /\ resultado'.error = "DuplicateAction"
             /\ transacciones' = transacciones
             /\ inventario' = inventario]_vars

EsSufijo(s, t) == \E k \in 0..Len(t) : s = SubSeq(t, k + 1, Len(t))

AceptadasEnLote ==
    {lote.hechas[i].transaccion_id :
        i \in {j \in DOMAIN lote.hechas : lote.hechas[j].respuesta = "registrada"}}

\* C20: every analizar_mensaje call empties the id set of the user and keeps
\* the message window (untouched when the extractor failed, and otherwise
\* extended by the answer and the message, oldest messages dropped first), so
\* right after it no id is reported as registered; and while a batch is in
\* progress the id set holds only ids accepted in that batch, so an id
\* accepted in an earlier batch is never reported as registered.
C20_IdsPorLote ==
    /\ \A user_id \in {"u1"}, ok \in BOOLEAN, mensaje \in Contenidos :
          LET s == analizar_mensaje(context_store, user_id, ok, "corto", mensaje,
                                    reloj)
              antes == IF Vigente(context_store, user_id, reloj)
                       THEN context_store[user_id].messages ELSE <<>>
          IN /\ s[user_id].accion_ids = {}
             /\ \A accion_id \in Ids :
                   ~is_action_id_registered(s, user_id, accion_id, reloj).valor
             /\ ~ok => s[user_id].messages = antes
             /\ ok => /\ s[user_id].messages # <<>>
                      /\ EsSufijo(s[user_id].messages,
                                  antes \o <<[role |-> "assistant", content |-> "corto"],
                                             [role |-> "user", content |-> mensaje]>>)
    /\ lote.activo
          => /\ lote.user_id \in DOMAIN context_store
             /\ context_store[lote.user_id].accion_ids \subseteq AceptadasEnLote

C20_Witness ==
    /\ resultado.op = "analizar_mensaje"
    /\ lote.activo /\ lote.hechas = <<>>
    /\ reloj > 0 /\ Vigente(context_store, lote.user_id, reloj)
    /\ Len(context_store[lote.user_id].messages) = 2
    /\ context_store[lote.user_id].accion_ids = {}
    /\ \E f \in transacciones :
          /\ f.tipo = "compra" /\ HayInventario(inventario, f.producto)
          /\ Head(lote.pendientes).transaccion_id = f.id

(***************************************************************************)
(* The message window (add_message).                                       *)
(***************************************************************************)
Ventana(store, user_id, now) ==
    IF Vigente(store, user_id, now) THEN store[user_id].messages ELSE <<>>

Canonicas == {"kilos", "toneladas", "cajas"}

CanonicaEsperada(unit) ==
    CASE unit \in {"kg", " KG ", "k", "kilo", "kilogramo", "kilogramos", "kilos", "Kilos"}
            -> "kilos"
      [] unit \in {"ton", "TON", "t", "tonelada", "toneladas"} -> "toneladas"
      [] unit \in {"caja", "cajas", "Cajas", " Cajas"} -> "cajas"
      [] unit \in {"litros", " Litros "} -> "litros"
      [] OTHER -> unit

Iguales(f, g) == f[1] * g[2] = g[1] * f[2]

Por(f, g) == <<f[1] * g[1], f[2] * g[2]>>

\* C22: convert_units normalizes both units, looks up the factor f of the
\* ordered pair and returns (cantidad * f, precio / f); in particular
\* convert_units("kg", "toneladas", 1000, 5) returns cantidad 1 and precio 5000.
C22_ConvertUnits ==
    resultado.op = "convert_units"
        => LET f == Factor(CanonicaEsperada(resultado.transaction_unit),
                           CanonicaEsperada(resultado.inventory_unit))
           IN /\ resultado.valor.cantidad = (resultado.cantidad * f[1]) \div f[2]
              /\ resultado.valor.precio = (resultado.precio * f[2]) \div f[1]
              /\ (/\ resultado.transaction_unit \in {"kg", " KG "}
                  /\ resultado.inventory_unit = "toneladas"
                  /\ resultado.cantidad = 1000 * Escala
                  /\ resultado.precio = 5 * Escala)
                    => resultado.valor = [cantidad |-> 1 * Escala,
                                          precio |-> 5000 * Escala]

C22_Witness ==
    /\ resultado.op = "convert_units"
    /\ resultado.transaction_unit = "kg" /\ resultado.inventory_unit = "toneladas"
    /\ resultado.cantidad = 1000 * Escala /\ resultado.precio = 5 * Escala
    /\ resultado.valor.cantidad = Escala

\* C23: for every pair of units with a unit outside kilos, toneladas and cajas
\* (such as "unidades" or "litros"), convert_units raises no error and returns
\* cantidad and precio unchanged, so actualizar_inventario called in such a
\* unit adds (compra) or subtracts (venta) the quantity as given; a sale of more
\* than the record holds is rejected as for any unit.
C23_ParSinFactor ==
    /\ \A transaction_unit \in TextosDeUnidad, inventory_unit \in UnidadesDeRegistro,
          cantidad \in CantidadesDeConversion, precio \in {5 * Escala} :
           (\/ CanonicaEsperada(transaction_unit) \notin Canonicas
            \/ CanonicaEsperada(inventory_unit) \notin Canonicas)
              => convert_units(transaction_unit, inventory_unit, cantidad, precio)
                    = [cantidad |-> cantidad, precio |-> precio]
    /\ \A producto \in {"leche"}, transaction_unit \in UnidadesSinFactor \cup {" Litros "},
          cantidad \in {k * Escala : k \in 1..MaxCantidad} :
           HayInventario(inventario, producto)
              => LET r == RegistroDe(inventario, producto)
                     compra == actualizar_inventario(inventario, producto,
                                                     transaction_unit, cantidad, "compra")
                     venta == actualizar_inventario(inventario, producto,
                                                    transaction_unit, cantidad, "venta")
                 IN /\ compra.error = ""
                    /\ compra.inv = ConCantidad(inventario, r, r.cantidad + cantidad)
                    /\ r.cantidad >= cantidad
                          => /\ venta.error = ""
                             /\ venta.inv = ConCantidad(inventario, r, r.cantidad - cantidad)
                    /\ r.cantidad < cantidad
                          => venta.error = "InsufficientStock" /\ venta.inv = inventario

C23_Witness ==
    /\ resultado.op = "actualizar_inventario"
    /\ resultado.tipo = "venta" /\ resultado.error = ""
    /\ inventario = {[producto |-> "leche", cantidad |-> Escala, unidad |-> "litros"]}

IdaYVuelta(desde, hasta, cantidad) ==
    convert_units(hasta, desde, convert_units(desde, hasta, cantidad, 0).cantidad, 0).cantidad

TablaCoherente ==
    /\ DOMAIN CONVERSION_FACTORS = Canonicas \X Canonicas
    /\ \A a \in Canonicas : Iguales(CONVERSION_FACTORS[<<a, a>>], <<1, 1>>)
    /\ \A a \in Canonicas, b \in Canonicas :
           Iguales(Por(CONVERSION_FACTORS[<<a, b>>], CONVERSION_FACTORS[<<b, a>>]), <<1, 1>>)
    /\ \A a \in Canonicas, b \in Canonicas, c \in Canonicas :
           Iguales(Por(CONVERSION_FACTORS[<<a, b>>], CONVERSION_FACTORS[<<b, c>>]),
                   CONVERSION_FACTORS[<<a, c>>])
    /\ Iguales(CONVERSION_FACTORS[<<"toneladas", "kilos">>], <<1000, 1>>)
    /\ Iguales(CONVERSION_FACTORS[<<"cajas", "kilos">>], <<50, 1>>)

C25_NormalizeUnit ==
    /\ resultado.op = "normalize_unit"
          => /\ resultado.valor = CanonicaEsperada(resultado.unit)
             /\ normalize_unit(resultado.valor) = resultado.valor
    /\ \A unit \in DOMAIN UNIT_NORMALIZATION :
           /\ UNIT_NORMALIZATION[unit] \in Canonicas
           /\ normalize_unit(unit) = UNIT_NORMALIZATION[unit]
    /\ \A unit \in Canonicas : normalize_unit(unit) = unit

C25_Witness ==
    /\ resultado.op = "normalize_unit"
    /\ resultado.unit = " KG " /\ resultado.valor = "kilos"

\* C26: agregar_transaccion assigns a fresh id when none is supplied, uses the
\* supplied id otherwise, and always persists the row, whatever id the caller
\* supplies (the inventory step may still fail afterwards).
C26_AgregarSiemprePersiste ==
    \A usuario \in Universo.creadores, tipo \in Universo.tipos_entrada,
       producto \in Universo.productos_entrada, cantidad \in Universo.cantidades_entrada,
       unidad \in Universo.unidades_entrada, ahora \in Universo.ahoras,
       transaccion_id \in Ids \cup {0} :
        \A uuid \in IF transaccion_id = 0 THEN IdsLibres ELSE {0} :
            LET s == agregar_salida(transacciones, inventario, usuario, tipo, producto,
                                    cantidad, unidad, 5 * Escala, "None", "None", "None",
                                    transaccion_id, uuid, ahora)
                id == IF transaccion_id = 0 THEN uuid ELSE transaccion_id
            IN /\ s.paso # "insertar"
               /\ \E fila \in s.transacciones :
                     /\ fila.id = id /\ fila.usuario = usuario /\ fila.tipo = tipo
                     /\ fila.producto = strip(producto) /\ fila.cantidad = cantidad
                     /\ fila.fecha = ahora
                     /\ s.transacciones = transacciones \cup {fila}

\* C27: obtener_historial_df returns exactly the entries of the user, most
\* recent first by creation time, whatever the dates and times at which the
\* entries were created.
C27_HistorialRecientePrimero ==
    resultado.op = "obtener_historial_df"
        => LET h == resultado.valor
           IN /\ {h[i] : i \in DOMAIN h}
                    = {f \in transacciones : f.usuario = resultado.user_id}
              /\ Len(h) = Cardinality({f \in transacciones :
                                         f.usuario = resultado.user_id})
              /\ \A i \in DOMAIN h, j \in DOMAIN h :
                    i < j => ~Menor(Instante(h[i].fecha), Instante(h[j].fecha))

(***************************************************************************)
(* Modify as a sequence of committed steps.                                *)
(***************************************************************************)
SoloReversion(inv, old_trans) ==
    IF ~AfectaInventario(old_trans.tipo) THEN inv
    ELSE IF ~HayInventario(inv, old_trans.producto)
    THEN inv \cup Existencias(old_trans.producto, old_trans.cantidad, old_trans.unidad)
    ELSE LET r == RegistroDe(inv, old_trans.producto)
             q == EnUnidad(old_trans.cantidad, old_trans.unidad, r.unidad)
         IN ConCantidad(inv, r, IF old_trans.tipo = "compra"
                                THEN r.cantidad - q ELSE r.cantidad + q)

\* C30: Modify performs, in this order and each as a committed step of its
\* own, the reversal of the stored entry, the update of the ledger row and
\* the re-application of the new entry: after the first step the inventory
\* holds the reversal and the ledger is untouched, after the second the
\* ledger holds the new row and the inventory still only the reversal, and
\* the third step ends as the whole handler does.  When execution stops
\* between the reversal and the re-application, the inventory reflects only
\* the reversal.
C30_ModificarPorPasos ==
    LET e == en_curso["A"]
    IN (\/ e.pc \in {"revertido", "actualizado"}
        \/ e.pc = "detenido" /\ resultado.error = "detenido")
          => LET nueva == Superponer(e.old_trans, e.nuevos_datos)
                 paso == IF e.pc = "detenido" THEN resultado.paso ELSE e.pc
                 entera == modificar_salida(e.antes.transacciones, e.antes.inventario,
                                            e.transaccion_id, e.usuario, e.nuevos_datos)
                 fin == modificar_reaplicar(inventario, nueva)
             IN /\ inventario = SoloReversion(e.antes.inventario, e.old_trans)
                /\ paso = "revertido" => transacciones = e.antes.transacciones
                /\ paso = "actualizado"
                      => /\ transacciones
                              = (e.antes.transacciones \ {e.old_trans}) \cup {nueva}
                         /\ transacciones = entera.transacciones
                         /\ fin.error = entera.error
                         /\ fin.error = "" => fin.inv = entera.inventario

\* Execution stopped after the row update of a Modify of a purchase: the
\* ledger holds the new row and the inventory only the reversal.
C30_Witness ==
    /\ resultado.op = "modificar" /\ resultado.error = "detenido"
    /\ resultado.paso = "actualizado"
    /\ en_curso["A"].pc = "detenido"
    /\ en_curso["A"].old_trans.tipo = "compra"
    /\ "cantidad" \in en_curso["A"].nuevos_datos.campos
    /\ transacciones # en_curso["A"].antes.transacciones
    /\ inventario # en_curso["A"].antes.inventario
    /\ inventario # (modificar_salida(en_curso["A"].antes.transacciones,
                                                    en_curso["A"].antes.inventario,
                                                    en_curso["A"].transaccion_id,
                                                    en_curso["A"].usuario,
                                                    en_curso["A"].nuevos_datos)).inventario

Aceptadas(c) == IF en_curso[c].pc = "libre" THEN {} ELSE en_curso[c].aceptadas

C31_CantidadYPrecioPositivos ==
    \A r \in transacciones : r.cantidad > 0 /\ r.precio > 0

(***************************************************************************)
(* Entries of other kinds.                                                 *)
(***************************************************************************)
\* The rows a step wrote, removed or rewrote (before and after).
FilasTocadas == (transacciones' \ transacciones) \cup (transacciones \ transacciones')

\* C32: a call that creates, rewrites without changing its kind, or deletes
\* a ledger entry whose kind is neither sale nor purchase leaves every
\* inventory record as it was and creates none.
C32_OtrosTiposNoTocanInventario ==
    [][(FilasTocadas # {} /\ \A r \in FilasTocadas : r.tipo \notin {"compra", "venta"})
          => inventario' = inventario]_vars

\* The last call rewrote an entry of another kind while a product is in
\* stock: Modify succeeded and only entries of another kind carry the
\* quantity that Modify writes.
C32_Witness ==
    /\ resultado.op = "modificar" /\ resultado.error = ""
    /\ \E r \in transacciones : r.tipo = "gasto" /\ r.cantidad = 2 * Escala
    /\ \A r \in transacciones : r.tipo \in {"compra", "venta"} => r.cantidad = Escala
    /\ \E i \in inventario : i.cantidad > 0

(***************************************************************************)
(* The free-text path when the store fails.                                *)
(***************************************************************************)
\* The iteration of the batch in progress ended in an error of the store.
FalloDeAlmacen ==
    /\ lote.activo
    /\ resultado'.op = "auto_handler"
    /\ resultado'.error \in ErroresDeAlmacen

\* C33: when the store fails during a create of the free-text path, the
\* processing of the request stops (whatever actions are still pending) and
\* the cache is as the duplicate check that precedes the create left it:
\* the id of the failed action is not recorded, the id set of the actor is
\* the one it had (an expired context was replaced by the check, before the
\* create), no context of another actor changes, and the tables are as they
\* were.
C33_FalloNoCorrompeCache ==
    [][FalloDeAlmacen =>
          LET u == lote.user_id
              id == Head(lote.pendientes).transaccion_id
          IN /\ ~lote'.activo
             /\ context_store'
                   = is_action_id_registered(context_store, u, id, reloj).store
             /\ id \notin context_store'[u].accion_ids
             /\ (u \in DOMAIN context_store /\ ~Caducado(context_store[u], reloj))
                   => context_store'[u].accion_ids = context_store[u].accion_ids
             /\ \A v \in DOMAIN context_store' \ {u} :
                   v \in DOMAIN context_store /\ context_store'[v] = context_store[v]
             /\ transacciones' = transacciones /\ inventario' = inventario]_vars

\* A create has just failed on the store while both users have ids in
\* their sets.
C33_Witness ==
    /\ resultado.op = "auto_handler"
    /\ resultado.error \in ErroresDeAlmacen
    /\ ~lote.activo
    /\ \A u \in UsuariosChat :
          u \in DOMAIN context_store /\ context_store[u].accion_ids # {}

\* The iteration of the batch in progress is about a record that carries
\* the "error" marker.
RegistroConError ==
    /\ lote.activo
    /\ resultado'.op = "auto_handler"
    /\ Head(lote.pendientes).error

\* C34: a record of a batch that carries the "error" marker is answered
\* with an error reply and not processed: ledger, inventory and the whole
\* context store (the id sets in it) stay as they were, and the records
\* after it remain to be processed.
C34_RegistroConErrorPasaDeLargo ==
    [][RegistroConError =>
          /\ resultado'.respuesta = "error" /\ resultado'.error = ""
          /\ transacciones' = transacciones /\ inventario' = inventario
          /\ context_store' = context_store
          /\ Len(lote.pendientes) > 1 =>
                /\ lote'.activo
                /\ lote'.pendientes = Tail(lote.pendientes)
                /\ lote'.user_id = lote.user_id]_vars

\* The record with the marker was answered while the ledger and the id set
\* held entries, and the record after it is a purchase still to be processed.
C34_Witness ==
    /\ lote.activo
    /\ resultado.op = "auto_handler" /\ resultado.respuesta = "error"
    /\ lote.hechas = <<[transaccion_id |-> 0, respuesta |-> "error"]>>
    /\ ~Head(lote.pendientes).error /\ Head(lote.pendientes).numerico
    /\ transacciones # {}

(***************************************************************************)
(* The compensating Delete.                                                *)
(***************************************************************************)
\* C35: after a Create that failed in its inventory step and the Delete of
\* the entry it left, issued at once by the caller, the ledger and the
\* inventory are exactly as they were before the Create.
C35_CompensarRestaura ==
    en_curso["A"].pc = "compensado" =>
        /\ transacciones = en_curso["A"].antes.transacciones
        /\ inventario = en_curso["A"].antes.inventario

(***************************************************************************)
(* Error-free sequences of calls.                                          *)
(***************************************************************************)
ProductosVivos == {f.producto : f \in {g \in transacciones : g.tipo \in {"compra", "venta"}}}

\* C36: after any sequence of create, modify and delete calls that all
\* returned without error, every product has at most one inventory record,
\* every product with live purchase or sale entries has one, and the
\* quantity of each record is the signed sum (purchases +, sales -) of the
\* live entries of its product converted into the unit of the record.
C36_SinErroresInventarioIgualAlLibro ==
    /\ \A r, q \in inventario : r.producto = q.producto => r = q
    /\ \A p \in ProductosVivos : \E r \in inventario : r.producto = p
    /\ \A r \in inventario :
          r.cantidad
             = SumaFirmada({f \in transacciones :
                               f.producto = r.producto
                                  /\ f.tipo \in {"compra", "venta"}},
                           r.unidad)

\* A stocked product whose live entries are a purchase and a sale in
\* different units, after a Modify.
C36_Witness ==
    /\ resultado.op = "modificar" /\ resultado.error = ""
    /\ \E r \in inventario :
        /\ r.cantidad > 0
        /\ \E f, g \in transacciones :
              /\ f.producto = r.producto /\ g.producto = r.producto
              /\ f.tipo = "compra" /\ g.tipo = "venta" /\ f.unidad # g.unidad
              /\ g.cantidad = 2 * Escala

(***************************************************************************)
(* The confirmation step of the sale and purchase conversations.           *)
(***************************************************************************)
EnVentaOCompra == estado[1] \in {"venta", "compra"}

\* C37: in the sale and purchase conversations the ledger changes only in
\* the step in which the user presses Confirm at the confirmation step, and
\* pressing Cancel there ends the conversation with the ledger and the
\* inventory unchanged.
C37_SoloConfirmarCrea ==
    [][EnVentaOCompra =>
          /\ transacciones' # transacciones =>
                estado[2] = "CONFIRM" /\ resultado'.data = "confirmar"
          /\ (estado[2] = "CONFIRM" /\ resultado'.op = "confirmar"
                 /\ resultado'.data = "cancelar") =>
                /\ estado' = END
                /\ transacciones' = transacciones
                /\ inventario' = inventario]_vars

\* C38: the actor stored on an entry that a request of a user writes is the
\* identity the modify, delete and history requests of that user present
\* (the id of the sender), so that the user owns the entries they create.
C38_ActorEsElSolicitante ==
    [][\A r \in transacciones' \ transacciones : r.usuario = resultado'.user_id]_vars

(***************************************************************************)
(* Ids in the ledger.                                                      *)
(***************************************************************************)
\* The iteration of the batch in progress is a create that carries an id
\* some ledger row already has.
CreateConIdExistente ==
    /\ lote.activo
    /\ resultado'.op = "auto_handler"
    /\ ~Head(lote.pendientes).error /\ Head(lote.pendientes).numerico
    /\ \E r \in transacciones : r.id = Head(lote.pendientes).transaccion_id

\* C39: through batches (each of which empties the id set of its user),
\* expiry of contexts and Delete requests, no two ledger rows ever share an
\* id, and a create that carries an id already in the ledger changes
\* neither the ledger nor the inventory, whether or not the id set still
\* holds that id.
C39_IdsUnicos ==
    [][/\ \A r, q \in transacciones' : r.id = q.id => r = q
       /\ CreateConIdExistente =>
             transacciones' = transacciones /\ inventario' = inventario]_vars

\* A create with an id of the ledger was stopped by the ledger, not by the
\* id set: the set had been emptied and the context had expired since.
C39_Witness ==
    /\ resultado.op = "auto_handler" /\ resultado.error = "IntegrityError"
    /\ transacciones # {}
    /\ reloj > CONTEXT_TTL

\* C40: every action of a batch is processed whatever the outcome of the
\* actions before it: an iteration, failed or not, that is not the last of
\* its batch leaves the rest of the batch to be processed.
C40_LoteSigueTrasFallo ==
    [][(lote.activo /\ resultado'.op = "auto_handler" /\ Len(lote.pendientes) > 1)
          => lote'.activo /\ lote'.pendientes = Tail(lote.pendientes)]_vars

====
